---- MODULE Spec2Model ----
(***************************************************************************)
(* Model of the room-based websocket chat hub of                           *)
(* lab_7/websocket-chat/server/main.go.                                    *)
(*                                                                         *)
(* Processes: the Hub control loop (Hub.run), one inbound duty (readPump)  *)
(* and one outbound duty (writePump) per client session, and the admin     *)
(* HTTP handler that routes notifications (handleNotification /            *)
(* routeNotification).  Steps are atomic at the level of lock operations   *)
(* and channel operations.  A critical section that contains no blocking   *)
(* operation is one step; a sync.RWMutex is writer-preferring, so a Lock   *)
(* call that finds readers announces itself and blocks later RLock calls.  *)
(*                                                                         *)
(* Strings that the code parses (notification targets, room names, user    *)
(* names) are sequences of short strings.  writePump takes a message from  *)
(* a mailbox only when some process is about to send to that mailbox: an   *)
(* earlier take changes nothing that another process can see before its    *)
(* next send.                                                              *)
(***************************************************************************)
EXTENDS Integers, Sequences, FiniteSets, TLC

(***************************************************************************)
(* Bounds of the model.                                                    *)
(***************************************************************************)
\* capacity of a session mailbox, make(chan Message, 256) in serveWs
MailboxCap == 4
\* capacity of the Hub broadcast queue, make(chan Message, 256) in NewHub
BroadcastCap == 1
\* capacity of the notification history, 50 in addNotification
HistoryCap == 2
\* number of non-command frames the clients send in a run
MaxChats == 2
\* number of command frames the clients send in a run
MaxCmds == 1
\* number of notifications the admin submits in a run that has sessions
MaxNotifs == 1
\* number of sessions whose connection ends in a run
MaxLeaves == 1

\* calls of removeClientFromRoom for a session that it has removed before
MaxAgain == 1

(***************************************************************************)
(* Strings.                                                                *)
(***************************************************************************)
HasPrefix(s, p) == Len(s) >= Len(p) /\ SubSeq(s, 1, Len(p)) = p

TrimPrefix(s, p) == IF HasPrefix(s, p) THEN SubSeq(s, Len(p) + 1, Len(s)) ELSE s

\* s occurs in t as a contiguous run (strings.Contains)
Contains(t, s) ==
    \E i \in 0..(Len(t) - Len(s)) : SubSeq(t, i + 1, i + Len(s)) = s

AllTarget == <<"a", "l", "l">>

RoomPrefix == <<"r", "o", "o", "m", ":">>

UserPrefix == <<"u", "s", "e", "r", ":">>

(***************************************************************************)
(* Sessions.  A session's username and room are the query parameters of    *)
(* its upgrade request (serveWs rejects empty ones); they are part of what *)
(* the environment chooses for a run.                                      *)
(***************************************************************************)
ClientOrder == <<"c1", "c2", "c3">>

Clients == {ClientOrder[i] : i \in 1..Len(ClientOrder)}

RoomNames == {<<"a">>, <<"b">>}

Usernames == {<<"u">>, <<"v">>, <<"u", "v">>}

Hub == "hub"

Routers == {"adm", "adm2"}

Procs == {Hub} \cup Routers \cup Clients

(***************************************************************************)
(* Inputs from the environment.                                            *)
(***************************************************************************)
\* targets an admin may submit: all, room:a, room:b, room:z (no such room),
\* user:u, user:uv, user:U (no such user), a target with neither prefix and
\* the empty target
Targets ==
    {AllTarget, <<"a", "l">>, <<>>}
    \cup {RoomPrefix \o r : r \in RoomNames \cup {<<"z">>}}
    \cup {UserPrefix \o u : u \in {<<"u">>, <<"u", "v">>, <<"U">>}}

\* msg.Type of a non-command frame, as supplied by the client
FrameTypes == {"chat", "join"}

\* msg.Text of a command frame
Commands == {<<"/users">>, <<"/stats">>, <<"/rooms">>, <<"/x">>}

MsgChat == "chat"

MsgSystem == "system"

MsgUserList == "user_list"

MsgStats == "stats"

MsgCommand == "command"

SystemUser == <<"SYSTEM">>

AdminUser == <<"ADMIN">>

NoMsg == [type |-> "", room |-> <<>>, username |-> <<>>, text |-> <<>>, src |-> <<>>]

NoNotif == [id |-> "", title |-> <<>>, message |-> <<>>, target |-> <<>>]

VARIABLES
    env,         \* what the environment does in this run (see Scenarios)
    rooms,       \* Hub.rooms: the set of keys of the room directory
    roomId,      \* identity of the Room object last created for a name
    members,     \* Room.Clients of the Room object last created for a name
    history,     \* Hub.history
    broadcast,   \* Hub.broadcast, a buffered channel
    send,        \* Client.send, the mailbox of each session
    conn,        \* Client.conn: "open" or "closed"
    pc,          \* position of each process
    wp,          \* position of each writePump
    loc,         \* local variables of each process
    hmuR,        \* processes that hold Hub.mu in read mode across steps
    rmuR,        \* per room name: processes holding Room.mu in read mode
    count,       \* how many frames / notifications the environment has sent
    recv,        \* history variable: every message ever put in a mailbox
    dropped,     \* history variable: messages dropped at a full mailbox
    appended,    \* history variable: the notifications added to the history
    clients,     \* unnamed/part_007: Hub.clients, the keys of the map
    Send,        \* unnamed/part_007: Client.Send, the mailbox of each client
    Conn,        \* unnamed/part_007: Client.Conn: "open" or "closed"
    run,         \* unnamed/part_007: position and locals of Hub.run
    readPump,    \* unnamed/part_007: position of handleWS / Client.readPump
    writePump,   \* unnamed/part_007: position of Client.writePump
    messages,    \* unnamed/part_007: how many messages the peers have sent
    inserted,    \* history variable: the clients ever put in Hub.clients
    closes,      \* history variable: the close(client.Send) calls per client
    panics       \* history variable: the run-time panics raised

\* the state of the single-room broadcast hub of unnamed/part_007
broadcastHub == <<clients, Send, Conn, run, readPump, writePump, messages,
                  inserted, closes, panics>>

vars == <<env, rooms, roomId, members, history, broadcast, send, conn,
          pc, wp, loc, hmuR, rmuR, count, recv, dropped, appended,
          broadcastHub>>

\* Client.room and Client.username, set once in serveWs
ClientRoom(c) == env.room[c]

ClientUser(c) == env.user[c]

(***************************************************************************)
(* Local variables of a process.  room, msg, rid, todo and ret are the     *)
(* frame of a call of broadcastToRoom or sendUserListToRoom; the others    *)
(* belong to the caller.                                                   *)
(***************************************************************************)
LocInit ==
    [room |-> <<>>, msg |-> NoMsg, rid |-> 0, todo |-> {}, ret |-> "",
     rtodo |-> {}, n |-> NoNotif, hist |-> <<>>, c |-> "", remaining |-> 0,
     stats |-> {}, again |-> FALSE]

(***************************************************************************)
(* Messages.  src is a history field: it names the operation that made the *)
(* message, so that two messages of equal content can be told apart.       *)
(***************************************************************************)
Digits == <<"0", "1", "2", "3", "4", "5", "6", "7", "8", "9">>

Itoa(k) == Digits[k + 1]

\* the Room object a name maps to now is the one a process looked up
Current(name, rid) == name \in rooms /\ roomId[name] = rid

JoinMsg(c) ==
    [type |-> "join", room |-> ClientRoom(c), username |-> ClientUser(c),
     text |-> ClientUser(c) \o <<" joined">>, src |-> <<"join", c, "">>]

LeaveMsg(c) ==
    [type |-> "leave", room |-> ClientRoom(c), username |-> ClientUser(c),
     text |-> ClientUser(c) \o <<" left">>, src |-> <<"leave", c, "">>]

ReplayMsg(c, n) ==
    [type |-> MsgSystem, room |-> ClientRoom(c), username |-> SystemUser,
     text |-> <<"[NOTIF] ">> \o n.title \o <<": ">> \o n.message,
     src |-> <<"replay", n.id, c>>]

LiveMsg(room, n) ==
    [type |-> MsgSystem, room |-> room, username |-> AdminUser,
     text |-> n.title \o <<": ">> \o n.message,
     src |-> <<"notif", n.id, "">>]

\* the "- <username>" lines of a user list; the Go map is walked in an
\* unspecified order, of which this is one
RECURSIVE UserLines(_, _)
UserLines(cs, i) ==
    IF i > Len(ClientOrder) THEN <<>>
    ELSE (IF ClientOrder[i] \in cs
          THEN <<"- ">> \o ClientUser(ClientOrder[i])
          ELSE <<>>) \o UserLines(cs, i + 1)

UserListMsg(room, cs, src) ==
    [type |-> MsgUserList, room |-> room, username |-> SystemUser,
     text |-> <<"Users in '">> \o room \o <<"' (", Itoa(Cardinality(cs)), "):">>
              \o UserLines(cs, 1),
     src |-> src]

RECURSIVE RoomLines(_)
RoomLines(rs) ==
    IF rs = {} THEN <<>>
    ELSE LET r == CHOOSE x \in rs : \A y \in rs : x = y \/ x = <<"a">>
         IN  <<"- ">> \o r \o RoomLines(rs \ {r})

RoomsReply(c, rs, k) ==
    [type |-> MsgSystem, room |-> ClientRoom(c), username |-> SystemUser,
     text |-> <<"Rooms:">> \o RoomLines(rs), src |-> <<"reply", c, Itoa(k)>>]

UnknownReply(c, k) ==
    [type |-> MsgSystem, room |-> ClientRoom(c), username |-> SystemUser,
     text |-> <<"Unknown command">>, src |-> <<"reply", c, Itoa(k)>>]

RECURSIVE StatLines(_)
StatLines(st) ==
    IF st = {} THEN <<>>
    ELSE LET e == CHOOSE x \in st : \A y \in st : x = y \/ x[1] = <<"a">>
         IN  e[1] \o <<e[2]>> \o StatLines(st \ {e})

RECURSIVE StatTotal(_)
StatTotal(st) ==
    IF st = {} THEN 0
    ELSE LET e == CHOOSE x \in st : TRUE
         IN  e[3] + StatTotal(st \ {e})

\* st: a set of <<room name, count as text, count>>
StatsReply(c, st, k) ==
    [type |-> MsgStats, room |-> ClientRoom(c), username |-> SystemUser,
     text |-> <<"total_users", Itoa(StatTotal(st)),
                "total_rooms", Itoa(Cardinality(st)), "room_details">>
              \o StatLines(st),
     src |-> <<"reply", c, Itoa(k)>>]

(***************************************************************************)
(* Runs.  A run starts in a state the server can be in with its Hub loop   *)
(* idle: notifications to the targets of past have been routed while no    *)
(* session was connected, then the sessions of joined have been registered *)
(* one after the other, and nothing else has happened; the sessions of     *)
(* waiting are about to send on hub.register, and the other sessions never *)
(* connect.  lag[c] is the number of messages writePump of c has not yet   *)
(* taken.  The other fields say what the environment does in the run: how  *)
(* many frames of which types, how many commands out of which, how many    *)
(* notifications to which targets from which admin requests, how many      *)
(* connections end and how many writes fail.  The state space is the union *)
(* of the runs of Scenarios.                                               *)
(***************************************************************************)
Quiet ==
    [room |-> [c \in Clients |-> <<"a">>],
     user |-> [c \in Clients |-> IF c = "c2" THEN <<"v">> ELSE <<"u">>],
     past |-> <<>>, joined |-> <<>>, waiting |-> {},
     lag |-> [c \in Clients |-> 0],
     chats |-> 0, types |-> {}, cmds |-> 0, cmdset |-> {},
     notifs |-> 0, targets |-> {}, admins |-> {"adm"}, leaves |-> 0,
     werrs |-> 0, forge |-> FALSE]

\* c1 in room a and c2 in room b, with different names
TwoRooms == [c \in Clients |-> IF c = "c2" THEN <<"b">> ELSE <<"a">>]

\* c1 and c3 in room a, c2 in room b; c1 and c2 share the name u, and the
\* name of c3 begins with it
Duplicated == [c \in Clients |-> IF c = "c3" THEN <<"u", "v">> ELSE <<"u">>]

Slow(c) == [d \in Clients |-> IF d = c THEN MailboxCap ELSE 0]

Scenarios ==
    { \* two sessions enter one room and leave it
      [Quiet EXCEPT !.waiting = {"c1", "c2"}, !.leaves = MaxLeaves + 1],
      \* two sessions enter two rooms and leave them
      [Quiet EXCEPT !.waiting = {"c1", "c2"}, !.room = TwoRooms,
                    !.leaves = MaxLeaves + 1],
      \* the members of a room send frames, and one leaves
      [Quiet EXCEPT !.joined = <<"c1", "c2">>, !.chats = MaxChats,
                    !.types = FrameTypes, !.leaves = 1],
      \* a member sends a frame and leaves while a session joins
      [Quiet EXCEPT !.joined = <<"c1">>, !.waiting = {"c2"}, !.chats = 1,
                    !.types = {MsgChat}, !.leaves = MaxLeaves],
      \* notifications to any targets, with three sessions in two rooms of
      \* which one may leave
      [Quiet EXCEPT !.joined = <<"c1", "c2", "c3">>, !.room = TwoRooms,
                    !.user = Duplicated, !.notifs = MaxNotifs,
                    !.targets = Targets, !.leaves = 1],
      \* notifications while a session joins
      [Quiet EXCEPT !.joined = <<"c1">>, !.waiting = {"c2"},
                    !.notifs = MaxNotifs,
                    !.targets = {AllTarget, RoomPrefix \o <<"a">>,
                                 UserPrefix \o <<"v">>}],
      \* sessions join after more notifications than the history keeps
      [Quiet EXCEPT !.past = <<AllTarget, RoomPrefix \o <<"a">>,
                               UserPrefix \o <<"u", "v">>>>,
                    !.room = TwoRooms, !.user = Duplicated,
                    !.joined = <<"c1">>, !.waiting = {"c2", "c3"}],
      \* more notifications than the history keeps, to a session, from two
      \* admin requests at a time
      [Quiet EXCEPT !.joined = <<"c1">>, !.notifs = HistoryCap + 1,
                    !.targets = {AllTarget, <<"a", "l">>},
                    !.admins = Routers],
      \* a frame and a notification to a room in which c1 does not read
      [Quiet EXCEPT !.joined = <<"c1", "c2">>, !.lag = Slow("c1"),
                    !.chats = 1, !.types = {MsgChat}, !.notifs = MaxNotifs,
                    !.targets = {RoomPrefix \o <<"a">>, UserPrefix \o <<"u">>}],
      \* a frame and a notification to c1, which does not read and whose
      \* write fails
      [Quiet EXCEPT !.joined = <<"c1", "c2">>, !.lag = Slow("c1"),
                    !.chats = 1, !.types = {MsgChat},
                    !.notifs = MaxNotifs, !.targets = {UserPrefix \o <<"u">>},
                    !.werrs = 1],
      \* a frame and a notification to the same room
      [Quiet EXCEPT !.joined = <<"c1", "c2">>, !.chats = 1,
                    !.types = {MsgChat}, !.notifs = MaxNotifs,
                    !.targets = {AllTarget, RoomPrefix \o <<"a">>}],
      \* a frame in a room of two, with a third session in another room; the
      \* frame names any username and room
      [Quiet EXCEPT !.joined = <<"c1", "c2", "c3">>, !.room = TwoRooms,
                    !.chats = 1, !.types = {MsgChat}, !.forge = TRUE],
      \* the three members of a room leave it
      [Quiet EXCEPT !.joined = <<"c1", "c2", "c3">>, !.leaves = MaxLeaves + 2],
      \* a command in a room of two
      [Quiet EXCEPT !.joined = <<"c1", "c2">>, !.cmds = MaxCmds,
                    !.cmdset = Commands],
      \* a notification to everyone while a session joins and the member
      \* leaves
      [Quiet EXCEPT !.joined = <<"c1">>, !.waiting = {"c2"}, !.notifs = 1,
                    !.targets = {AllTarget}, !.leaves = 1],
      \* a command, while the other member leaves
      [Quiet EXCEPT !.joined = <<"c1", "c2">>, !.room = TwoRooms,
                    !.cmds = MaxCmds, !.cmdset = Commands,
                    !.leaves = MaxLeaves]
    }

Joined(s) == {s.joined[i] : i \in 1..Len(s.joined)}

\* the k-th notification of a run
Notif(k, target) ==
    [id |-> Itoa(k), title |-> <<"T", Itoa(k)>>, message |-> <<"M", Itoa(k)>>,
     target |-> target]

\* addNotification: append, and keep the last 50
\* addNotification cutting the history at the wrong end
AddNotificationKeepsOldest(h, n) ==
    LET h1 == Append(h, n)
    IN  IF Len(h1) > HistoryCap THEN SubSeq(h1, 1, HistoryCap) ELSE h1

AddNotification(h, n) ==
    LET h1 == Append(h, n)
    IN  IF Len(h1) > HistoryCap
        THEN SubSeq(h1, Len(h1) - HistoryCap + 1, Len(h1))
        ELSE h1

RECURSIVE PastHistory(_, _)
PastHistory(s, k) ==
    IF k = 0 THEN <<>>
    ELSE AddNotification(PastHistory(s, k - 1), Notif(k, s.past[k]))

\* a variant of ReplayMatches that takes a room: target for any room
ReplayMatchesAnyRoom(n, c) ==
    IF n.target = AllTarget THEN TRUE
    ELSE IF HasPrefix(n.target, RoomPrefix) THEN TRUE
    ELSE IF HasPrefix(n.target, UserPrefix)
         THEN TrimPrefix(n.target, UserPrefix) = ClientUser(c)
    ELSE FALSE

\* the switch that sets send in the replay loop of addClientToRoom
ReplayMatches(n, c) ==
    IF n.target = AllTarget THEN TRUE
    ELSE IF HasPrefix(n.target, RoomPrefix)
         THEN TrimPrefix(n.target, RoomPrefix) = ClientRoom(c)
    ELSE IF HasPrefix(n.target, UserPrefix)
         THEN TrimPrefix(n.target, UserPrefix) = ClientUser(c)
    ELSE FALSE

\* the replay loop of addClientToRoom over a history h
RECURSIVE ReplayLog(_, _)
ReplayLog(c, h) ==
    IF h = <<>> THEN <<>>
    ELSE (IF ReplayMatches(Head(h), c) THEN <<ReplayMsg(c, Head(h))>> ELSE <<>>)
         \o ReplayLog(c, Tail(h))

\* what session c has been sent by the registrations of s.joined from the
\* j-th on: the join message and the user list of every later registration
\* in its room, and at its own the replay of the history in between
RECURSIVE JoinLog(_, _, _)
JoinLog(s, c, j) ==
    IF j > Len(s.joined) THEN <<>>
    ELSE LET d == s.joined[j]
             before == {s.joined[i] : i \in 1..j}
             there == {x \in before : s.room[x] = s.room[c]}
         IN  (IF c \in before /\ s.room[d] = s.room[c]
              THEN <<JoinMsg(d)>>
                   \o (IF d = c
                       THEN ReplayLog(c, PastHistory(s, Len(s.past)))
                       ELSE <<>>)
                   \o <<UserListMsg(s.room[c], there, <<"user_list", "join", d>>)>>
              ELSE <<>>) \o JoinLog(s, c, j + 1)

Min(a, b) == IF a < b THEN a ELSE b

\* the chat hub of lab_7 as scenario s starts it
InitOf(s) ==
      /\ env = s
      /\ rooms = {s.room[c] : c \in Joined(s)}
      /\ roomId = [r \in RoomNames |->
                     IF \E c \in Joined(s) : s.room[c] = r THEN 1 ELSE 0]
      /\ members = [r \in RoomNames |-> {c \in Joined(s) : s.room[c] = r}]
      /\ history = PastHistory(s, Len(s.past))
      /\ broadcast = <<>>
      /\ recv = [c \in Clients |-> JoinLog(s, c, 1)]
      /\ send = [c \in Clients |->
                   LET log == JoinLog(s, c, 1)
                       k == Min(Min(s.lag[c], MailboxCap), Len(log))
                   IN  SubSeq(log, Len(log) - k + 1, Len(log))]
      /\ conn = [c \in Clients |-> "open"]
      /\ pc = [p \in Procs |->
                 IF p = Hub THEN "select"
                 ELSE IF p \in Routers THEN "idle"
                 ELSE IF p \in Joined(s) THEN "read"
                 ELSE IF p \in s.waiting THEN "reg_send"
                 ELSE "off"]
      /\ wp = [c \in Clients |-> IF c \in Joined(s) THEN "run" ELSE "off"]
      /\ loc = [p \in Procs |-> LocInit]
      /\ hmuR = {}
      /\ rmuR = [r \in RoomNames |-> {}]
      /\ count = [chats |-> 0, frames |-> <<>>, cmds |-> 0,
                  notifs |-> Len(s.past), leaves |-> 0, werrs |-> 0,
                  again |-> 0]
      /\ dropped = [c \in Clients |-> {}]
      /\ appended = [k \in 1..Len(s.past) |-> Notif(k, s.past[k])]

\* the broadcast hub of unnamed/part_007 before its main() has run
BroadcastHubIdle ==
    /\ clients = {}
    /\ Send = [c \in Clients |-> <<>>]
    /\ Conn = [c \in Clients |-> "open"]
    /\ run = [at |-> "off", client |-> "", message |-> <<>>, todo |-> {}]
    /\ readPump = [c \in Clients |-> "off"]
    /\ writePump = [c \in Clients |-> "off"]
    /\ messages = 0
    /\ inserted = {}
    /\ closes = [c \in Clients |-> <<>>]
    /\ panics = {}

Init ==
    /\ \E s \in Scenarios : InitOf(s)
    /\ BroadcastHubIdle

(***************************************************************************)
(* Locks.  Only the Hub loop takes Hub.mu or a Room.mu in write mode, and  *)
(* each of its write sections is one step, so a writer is either absent or *)
(* waiting for the readers to leave.                                       *)
(***************************************************************************)
HubWantsH == pc[Hub] \in {"add_getroom_wait", "rem_dirdel_wait"}

HubWantsR(r) ==
    /\ pc[Hub] \in {"add_insert_wait", "rem_delete_wait"}
    /\ ClientRoom(loc[Hub].c) = r

CanRLockH == ~HubWantsH

CanRLockR(r) == ~HubWantsR(r)

(***************************************************************************)
(* Channel sends to a mailbox.                                             *)
(***************************************************************************)
Full(c) == Len(send[c]) >= MailboxCap

\* select { case c.send <- msg: default: }
TrySend(c, m) ==
    IF Full(c)
    THEN /\ dropped' = [dropped EXCEPT ![c] = @ \cup {m.src}]
         /\ UNCHANGED <<send, recv>>
    ELSE /\ send' = [send EXCEPT ![c] = Append(@, m)]
         /\ recv' = [recv EXCEPT ![c] = Append(@, m)]
         /\ UNCHANGED dropped

\* c.send <- msg
BlockingSend(c, m) ==
    /\ ~Full(c)
    /\ send' = [send EXCEPT ![c] = Append(@, m)]
    /\ recv' = [recv EXCEPT ![c] = Append(@, m)]
    /\ UNCHANGED dropped

\* the frame of a finished call is cleared; a process back at the head of its
\* loop holds no local variable
Returned(p) ==
    IF loc[p].ret \in {"select", "idle", "read"}
    THEN LocInit
    ELSE [loc[p] EXCEPT !.room = <<>>, !.msg = NoMsg, !.rid = 0, !.todo = {},
                        !.ret = ""]

Call(p, room, msg, ret) ==
    [loc[p] EXCEPT !.room = room, !.msg = msg, !.ret = ret]

(***************************************************************************)
(* broadcastToRoom(roomName, msg), run by process p.                       *)
(***************************************************************************)
\* h.mu.RLock(); r, ok := h.rooms[roomName]; h.mu.RUnlock(); if !ok return
BcLookup(p) ==
    /\ pc[p] = "bc_lookup"
    /\ CanRLockH
    /\ IF loc[p].room \in rooms
       THEN /\ pc' = [pc EXCEPT ![p] = "bc_rlock"]
            /\ loc' = [loc EXCEPT ![p].rid = roomId[loc[p].room]]
       ELSE /\ pc' = [pc EXCEPT ![p] = loc[p].ret]
            /\ loc' = [loc EXCEPT ![p] = Returned(p)]
    /\ UNCHANGED <<broadcastHub, env, rooms, roomId, members, history, broadcast, send, conn, wp,
                   hmuR, rmuR, count, recv, dropped, appended>>

\* r.mu.RLock(); a Room object that is no longer in the directory has no
\* member (it was deleted with none and nothing adds to it), and a walk of an
\* empty member set ends with r.mu.RUnlock() in the same step
BcRLock(p) ==
    /\ pc[p] = "bc_rlock"
    /\ LET r == loc[p].room
           cur == Current(r, loc[p].rid)
       IN  /\ cur => CanRLockR(r)
           /\ IF cur /\ members[r] # {}
              THEN /\ pc' = [pc EXCEPT ![p] = "bc_deliver"]
                   /\ loc' = [loc EXCEPT ![p].todo = members[r]]
                   /\ rmuR' = [rmuR EXCEPT ![r] = @ \cup {p}]
              ELSE /\ pc' = [pc EXCEPT ![p] = loc[p].ret]
                   /\ loc' = [loc EXCEPT ![p] = Returned(p)]
                   /\ UNCHANGED rmuR
    /\ UNCHANGED <<broadcastHub, env, rooms, roomId, members, history, broadcast, send, conn, wp,
                   hmuR, count, recv, dropped, appended>>

\* one turn of: for c := range r.Clients { select { case c.send <- msg: default: } }
\* and, after the last member, r.mu.RUnlock()
BcDeliver(p, c) ==
    /\ pc[p] = "bc_deliver"
    /\ c \in loc[p].todo
    /\ TrySend(c, loc[p].msg)
    /\ IF loc[p].todo = {c}
       THEN /\ pc' = [pc EXCEPT ![p] = loc[p].ret]
            /\ loc' = [loc EXCEPT ![p] = Returned(p)]
            /\ rmuR' = [rmuR EXCEPT ![loc[p].room] = @ \ {p}]
       ELSE /\ loc' = [loc EXCEPT ![p].todo = @ \ {c}]
            /\ UNCHANGED <<pc, rmuR>>
    /\ UNCHANGED <<broadcastHub, env, rooms, roomId, members, history, broadcast, conn, wp,
                   hmuR, count, appended>>

(***************************************************************************)
(* sendUserListToRoom(roomName), run by process p; loc[p].msg.src names    *)
(* the caller.  It ends in a call of broadcastToRoom.                      *)
(***************************************************************************)
UlLookup(p) ==
    /\ pc[p] = "ul_lookup"
    /\ CanRLockH
    /\ IF loc[p].room \in rooms
       THEN /\ pc' = [pc EXCEPT ![p] = "ul_snapshot"]
            /\ loc' = [loc EXCEPT ![p].rid = roomId[loc[p].room]]
       ELSE /\ pc' = [pc EXCEPT ![p] = loc[p].ret]
            /\ loc' = [loc EXCEPT ![p] = Returned(p)]
    /\ UNCHANGED <<broadcastHub, env, rooms, roomId, members, history, broadcast, send, conn, wp,
                   hmuR, rmuR, count, recv, dropped, appended>>

\* r.mu.RLock(); collect the usernames; r.mu.RUnlock(); build the message
UlSnapshot(p) ==
    /\ pc[p] = "ul_snapshot"
    /\ LET r == loc[p].room
           cur == Current(r, loc[p].rid)
           users == IF cur THEN members[r] ELSE {}
       IN  /\ cur => CanRLockR(r)
           /\ pc' = [pc EXCEPT ![p] = "bc_lookup"]
           /\ loc' = [loc EXCEPT ![p].msg = UserListMsg(r, users, loc[p].msg.src),
                                 ![p].rid = 0]
    /\ UNCHANGED <<broadcastHub, env, rooms, roomId, members, history, broadcast, send, conn, wp,
                   hmuR, rmuR, count, recv, dropped, appended>>

(***************************************************************************)
(* Hub.run: the control loop.  A select with several ready cases takes any *)
(* of them.                                                                *)
(***************************************************************************)
\* case c := <-h.register, the other side of hub.register <- client in
\* serveWs, which then starts writePump and readPump
HubRecvRegister(c) ==
    /\ pc[Hub] = "select"
    /\ pc[c] = "reg_send"
    /\ pc' = [pc EXCEPT ![Hub] = "add_getroom", ![c] = "read"]
    /\ wp' = [wp EXCEPT ![c] = "run"]
    /\ loc' = [loc EXCEPT ![Hub].c = c]
    /\ UNCHANGED <<broadcastHub, env, rooms, roomId, members, history, broadcast, send, conn,
                   hmuR, rmuR, count, recv, dropped, appended>>

\* case c := <-h.unregister, the other side of c.hub.unregister <- c in the
\* deferred function of readPump, which then closes the connection
HubRecvUnregister(c) ==
    /\ pc[Hub] = "select"
    /\ pc[c] = "unreg_send"
    /\ pc' = [pc EXCEPT ![Hub] = "rem_lookup", ![c] = "done"]
    /\ conn' = [conn EXCEPT ![c] = "closed"]
    /\ loc' = [loc EXCEPT ![Hub].c = c]
    /\ UNCHANGED <<broadcastHub, env, rooms, roomId, members, history, broadcast, send, wp,
                   hmuR, rmuR, count, recv, dropped, appended>>

\* case msg := <-h.broadcast: h.broadcastToRoom(msg.Room, msg)
HubRecvBroadcast ==
    /\ pc[Hub] = "select"
    /\ broadcast # <<>>
    /\ broadcast' = Tail(broadcast)
    /\ pc' = [pc EXCEPT ![Hub] = "bc_lookup"]
    /\ loc' = [loc EXCEPT ![Hub] = Call(Hub, Head(broadcast).room, Head(broadcast), "select")]
    /\ UNCHANGED <<broadcastHub, env, rooms, roomId, members, history, send, conn, wp,
                   hmuR, rmuR, count, recv, dropped, appended>>

(***************************************************************************)
(* addClientToRoom(client), run by the Hub loop.                           *)
(***************************************************************************)
\* getOrCreateRoom: h.mu.Lock(); look up or create; h.mu.Unlock()
GetOrCreateRoom ==
    /\ pc[Hub] \in {"add_getroom", "add_getroom_wait"}
    /\ hmuR = {}
    /\ LET r == ClientRoom(loc[Hub].c)
       IN  /\ rooms' = rooms \cup {r}
           /\ roomId' = IF r \in rooms THEN roomId ELSE [roomId EXCEPT ![r] = @ + 1]
           /\ members' = IF r \in rooms THEN members ELSE [members EXCEPT ![r] = {}]
    /\ pc' = [pc EXCEPT ![Hub] = "add_insert"]
    /\ UNCHANGED <<broadcastHub, env, history, broadcast, send, conn, wp, loc, hmuR, rmuR, count,
                   recv, dropped, appended>>

\* h.mu.Lock() finds readers: the writer is announced and waits
GetOrCreateRoomWait ==
    /\ pc[Hub] = "add_getroom"
    /\ hmuR # {}
    /\ pc' = [pc EXCEPT ![Hub] = "add_getroom_wait"]
    /\ UNCHANGED <<broadcastHub, env, rooms, roomId, members, history, broadcast, send, conn, wp,
                   loc, hmuR, rmuR, count, recv, dropped, appended>>

\* r.mu.Lock(); r.Clients[client] = true; r.mu.Unlock(); then the join
\* message is built and broadcastToRoom(r.Name, join) is called
AddInsert ==
    /\ pc[Hub] \in {"add_insert", "add_insert_wait"}
    /\ LET c == loc[Hub].c
           r == ClientRoom(c)
       IN  /\ rmuR[r] = {}
           /\ members' = [members EXCEPT ![r] = @ \cup {c}]
           /\ loc' = [loc EXCEPT ![Hub] = Call(Hub, r, JoinMsg(c), "add_hist")]
    /\ pc' = [pc EXCEPT ![Hub] = "bc_lookup"]
    /\ UNCHANGED <<broadcastHub, env, rooms, roomId, history, broadcast, send, conn, wp, hmuR,
                   rmuR, count, recv, dropped, appended>>

AddInsertWait ==
    /\ pc[Hub] = "add_insert"
    /\ rmuR[ClientRoom(loc[Hub].c)] # {}
    /\ pc' = [pc EXCEPT ![Hub] = "add_insert_wait"]
    /\ UNCHANGED <<broadcastHub, env, rooms, roomId, members, history, broadcast, send, conn, wp,
                   loc, hmuR, rmuR, count, recv, dropped, appended>>

\* h.notifMu.RLock(); copy(history, h.history); h.notifMu.RUnlock()
AddCopyHistory ==
    /\ pc[Hub] = "add_hist"
    /\ loc' = [loc EXCEPT ![Hub].hist = history]
    /\ pc' = [pc EXCEPT ![Hub] = "add_replay"]
    /\ UNCHANGED <<broadcastHub, env, rooms, roomId, members, history, broadcast, send, conn, wp,
                   hmuR, rmuR, count, recv, dropped, appended>>

\* a variant of AddReplay that walks the copied history from its newest entry
AddReplayNewestFirst ==
    /\ pc[Hub] = "add_replay"
    /\ loc[Hub].hist # <<>>
    /\ LET c == loc[Hub].c
           h == loc[Hub].hist
           n == h[Len(h)]
       IN  /\ IF ReplayMatches(n, c)
              THEN BlockingSend(c, ReplayMsg(c, n))
              ELSE UNCHANGED <<send, recv, dropped>>
           /\ loc' = [loc EXCEPT ![Hub].hist = SubSeq(h, 1, Len(h) - 1)]
    /\ UNCHANGED <<broadcastHub, env, rooms, roomId, members, history, broadcast, conn, pc, wp,
                   hmuR, rmuR, count, appended>>

\* one turn of the replay loop; client.send <- nj blocks on a full mailbox
AddReplay ==
    /\ pc[Hub] = "add_replay"
    /\ loc[Hub].hist # <<>>
    /\ LET c == loc[Hub].c
           n == Head(loc[Hub].hist)
       IN  IF ReplayMatches(n, c)
           THEN BlockingSend(c, ReplayMsg(c, n))
           ELSE UNCHANGED <<send, recv, dropped>>
    /\ loc' = [loc EXCEPT ![Hub].hist = Tail(@)]
    /\ UNCHANGED <<broadcastHub, env, rooms, roomId, members, history, broadcast, conn, pc, wp,
                   hmuR, rmuR, count, appended>>

\* h.sendUserListToRoom(r.Name), the last statement
AddUserList ==
    /\ pc[Hub] = "add_replay"
    /\ loc[Hub].hist = <<>>
    /\ LET c == loc[Hub].c
       IN  loc' = [loc EXCEPT ![Hub] =
                     Call(Hub, ClientRoom(c),
                          [NoMsg EXCEPT !.src = <<"user_list", "join", c>>],
                          "select")]
    /\ pc' = [pc EXCEPT ![Hub] = "ul_lookup"]
    /\ UNCHANGED <<broadcastHub, env, rooms, roomId, members, history, broadcast, send, conn, wp,
                   hmuR, rmuR, count, recv, dropped, appended>>

(***************************************************************************)
(* removeClientFromRoom(client), run by the Hub loop.                      *)
(***************************************************************************)
\* h.mu.RLock(); r, ok := h.rooms[client.room]; h.mu.RUnlock(); if !ok return
RemLookup ==
    /\ pc[Hub] = "rem_lookup"
    /\ CanRLockH
    /\ IF ClientRoom(loc[Hub].c) \in rooms
       THEN /\ pc' = [pc EXCEPT ![Hub] = "rem_delete"]
            /\ UNCHANGED loc
       ELSE /\ pc' = [pc EXCEPT ![Hub] = "select"]
            /\ loc' = [loc EXCEPT ![Hub] = LocInit]
    /\ UNCHANGED <<broadcastHub, env, rooms, roomId, members, history, broadcast, send, conn, wp,
                   hmuR, rmuR, count, recv, dropped, appended>>

\* a variant of RemDelete that counts the others but deletes nothing
RemDeleteKeepsMember ==
    /\ pc[Hub] \in {"rem_delete", "rem_delete_wait"}
    /\ LET c == loc[Hub].c
           r == ClientRoom(c)
       IN  /\ rmuR[r] = {}
           /\ loc' = [loc EXCEPT ![Hub] =
                        [Call(Hub, r, LeaveMsg(c), "rem_ul")
                           EXCEPT !.remaining = Cardinality(members[r] \ {c})]]
    /\ pc' = [pc EXCEPT ![Hub] = "bc_lookup"]
    /\ UNCHANGED <<broadcastHub, env, rooms, roomId, members, history, broadcast, send, conn, wp,
                   hmuR, rmuR, count, recv, dropped, appended>>

\* r.mu.Lock(); delete(r.Clients, client) if present; remaining :=
\* len(r.Clients); r.mu.Unlock(); then the leave message is built and
\* broadcastToRoom(r.Name, leave) is called
RemDelete ==
    /\ pc[Hub] \in {"rem_delete", "rem_delete_wait"}
    /\ LET c == loc[Hub].c
           r == ClientRoom(c)
       IN  /\ rmuR[r] = {}
           /\ members' = [members EXCEPT ![r] = @ \ {c}]
           /\ loc' = [loc EXCEPT ![Hub] =
                        [Call(Hub, r, LeaveMsg(c), "rem_ul")
                           EXCEPT !.remaining = Cardinality(members[r] \ {c})]]
    /\ pc' = [pc EXCEPT ![Hub] = "bc_lookup"]
    /\ UNCHANGED <<broadcastHub, env, rooms, roomId, history, broadcast, send, conn, wp, hmuR,
                   rmuR, count, recv, dropped, appended>>

RemDeleteWait ==
    /\ pc[Hub] = "rem_delete"
    /\ rmuR[ClientRoom(loc[Hub].c)] # {}
    /\ pc' = [pc EXCEPT ![Hub] = "rem_delete_wait"]
    /\ UNCHANGED <<broadcastHub, env, rooms, roomId, members, history, broadcast, send, conn, wp,
                   loc, hmuR, rmuR, count, recv, dropped, appended>>

\* a variant of RemUserList that sends no user list
RemUserListSkipped ==
    /\ pc[Hub] = "rem_ul"
    /\ pc' = [pc EXCEPT ![Hub] = "rem_dirdel"]
    /\ UNCHANGED <<broadcastHub, env, rooms, roomId, members, history, broadcast, send, conn, wp,
                   loc, hmuR, rmuR, count, recv, dropped, appended>>

\* h.sendUserListToRoom(r.Name)
RemUserList ==
    /\ pc[Hub] = "rem_ul"
    /\ LET c == loc[Hub].c
       IN  loc' = [loc EXCEPT ![Hub] =
                     Call(Hub, ClientRoom(c),
                          [NoMsg EXCEPT !.src = <<"user_list", "leave", c>>],
                          "rem_dirdel")]
    /\ pc' = [pc EXCEPT ![Hub] = "ul_lookup"]
    /\ UNCHANGED <<broadcastHub, env, rooms, roomId, members, history, broadcast, send, conn, wp,
                   hmuR, rmuR, count, recv, dropped, appended>>

\* a variant of RemDirDelete that leaves the emptied room in the directory
RemDirDeleteKeepsRoom ==
    /\ pc[Hub] \in {"rem_dirdel", "rem_dirdel_wait"}
    /\ pc' = [pc EXCEPT ![Hub] = "select"]
    /\ loc' = [loc EXCEPT ![Hub] = LocInit]
    /\ UNCHANGED <<broadcastHub, env, rooms, roomId, members, history, broadcast, send, conn, wp,
                   hmuR, rmuR, count, recv, dropped, appended>>

\* if remaining == 0 { h.mu.Lock(); delete(h.rooms, r.Name); h.mu.Unlock() }
RemDirDelete ==
    /\ pc[Hub] \in {"rem_dirdel", "rem_dirdel_wait"}
    /\ IF loc[Hub].remaining = 0
       THEN /\ hmuR = {}
            /\ rooms' = rooms \ {ClientRoom(loc[Hub].c)}
       ELSE UNCHANGED rooms
    /\ pc' = [pc EXCEPT ![Hub] = "select"]
    /\ loc' = [loc EXCEPT ![Hub] = LocInit]
    /\ UNCHANGED <<broadcastHub, env, roomId, members, history, broadcast, send, conn, wp, hmuR,
                   rmuR, count, recv, dropped, appended>>

RemDirDeleteWait ==
    /\ pc[Hub] = "rem_dirdel"
    /\ loc[Hub].remaining = 0
    /\ hmuR # {}
    /\ pc' = [pc EXCEPT ![Hub] = "rem_dirdel_wait"]
    /\ UNCHANGED <<broadcastHub, env, rooms, roomId, members, history, broadcast, send, conn, wp,
                   loc, hmuR, rmuR, count, recv, dropped, appended>>

(***************************************************************************)
(* serveWs / readPump: the inbound duty of session c.                      *)
(***************************************************************************)
\* c.hub.broadcast <- msg
BroadcastFull == Len(broadcast) >= BroadcastCap

\* a variant of ReadFrame in which readPump calls broadcastToRoom itself
\* instead of sending the frame to the broadcast queue
ReadFrameDirect(c, type, username, room, text) ==
    /\ pc[c] = "read"
    /\ conn[c] = "open"
    /\ count.chats < env.chats
    /\ type \in env.types
    /\ type # MsgCommand
    /\ env.forge \/ (username = ClientUser(c) /\ room = ClientRoom(c))
    /\ count' = [count EXCEPT !.chats = @ + 1,
                              !.frames = Append(@, [c |-> c, text |-> text,
                                                    username |-> username,
                                                    room |-> room])]
    /\ LET m0 == [type |-> type, room |-> room, username |-> username,
                  text |-> text, src |-> <<"frame", c, Itoa(count.chats + 1)>>]
           msg == [m0 EXCEPT !.username = ClientUser(c), !.room = ClientRoom(c)]
       IN  /\ pc' = [pc EXCEPT ![c] = "bc_lookup"]
           /\ loc' = [loc EXCEPT ![c] = Call(c, msg.room, msg, "read")]
    /\ UNCHANGED <<broadcastHub, env, rooms, roomId, members, history, broadcast, send, conn, wp,
                   hmuR, rmuR, recv, dropped, appended>>

\* a variant of ReadFrame that trusts the username and the room of the frame
ReadFrameUnstamped(c, type, username, room, text) ==
    /\ pc[c] = "read"
    /\ conn[c] = "open"
    /\ count.chats < env.chats
    /\ type \in env.types
    /\ type # MsgCommand
    /\ env.forge \/ (username = ClientUser(c) /\ room = ClientRoom(c))
    /\ count' = [count EXCEPT !.chats = @ + 1,
                              !.frames = Append(@, [c |-> c, text |-> text,
                                                    username |-> username,
                                                    room |-> room])]
    /\ LET msg == [type |-> type, room |-> room, username |-> username,
                   text |-> text, src |-> <<"frame", c, Itoa(count.chats + 1)>>]
       IN  IF BroadcastFull
           THEN /\ pc' = [pc EXCEPT ![c] = "bcast_send"]
                /\ loc' = [loc EXCEPT ![c].msg = msg]
                /\ UNCHANGED broadcast
           ELSE /\ broadcast' = Append(broadcast, msg)
                /\ UNCHANGED <<pc, loc>>
    /\ UNCHANGED <<broadcastHub, env, rooms, roomId, members, history, send, conn, wp, hmuR, rmuR,
                   recv, dropped, appended>>

\* a variant of ReadFrame that stamps the room and keeps the frame's username
ReadFrameKeepsUsername(c, type, username, room, text) ==
    /\ pc[c] = "read"
    /\ conn[c] = "open"
    /\ count.chats < env.chats
    /\ type \in env.types
    /\ type # MsgCommand
    /\ env.forge \/ (username = ClientUser(c) /\ room = ClientRoom(c))
    /\ count' = [count EXCEPT !.chats = @ + 1,
                              !.frames = Append(@, [c |-> c, text |-> text,
                                                    username |-> username,
                                                    room |-> room])]
    /\ LET msg == [type |-> type, room |-> ClientRoom(c), username |-> username,
                   text |-> text, src |-> <<"frame", c, Itoa(count.chats + 1)>>]
       IN  IF BroadcastFull
           THEN /\ pc' = [pc EXCEPT ![c] = "bcast_send"]
                /\ loc' = [loc EXCEPT ![c].msg = msg]
                /\ UNCHANGED broadcast
           ELSE /\ broadcast' = Append(broadcast, msg)
                /\ UNCHANGED <<pc, loc>>
    /\ UNCHANGED <<broadcastHub, env, rooms, roomId, members, history, send, conn, wp, hmuR, rmuR,
                   recv, dropped, appended>>

\* ReadJSON returns a frame whose type is not "command": it is stamped with
\* the session's username and room and sent to the broadcast queue; the
\* send blocks while the queue is full
ReadFrame(c, type, username, room, text) ==
    /\ pc[c] = "read"
    /\ conn[c] = "open"
    /\ count.chats < env.chats
    /\ type \in env.types
    /\ type # MsgCommand
    /\ env.forge \/ (username = ClientUser(c) /\ room = ClientRoom(c))
    /\ count' = [count EXCEPT !.chats = @ + 1,
                              !.frames = Append(@, [c |-> c, text |-> text,
                                                    username |-> username,
                                                    room |-> room])]
    /\ LET m0 == [type |-> type, room |-> room, username |-> username,
                  text |-> text, src |-> <<"frame", c, Itoa(count.chats + 1)>>]
           msg == [m0 EXCEPT !.username = ClientUser(c), !.room = ClientRoom(c)]
       IN  IF BroadcastFull
           THEN /\ pc' = [pc EXCEPT ![c] = "bcast_send"]
                /\ loc' = [loc EXCEPT ![c].msg = msg]
                /\ UNCHANGED broadcast
           ELSE /\ broadcast' = Append(broadcast, msg)
                /\ UNCHANGED <<pc, loc>>
    /\ UNCHANGED <<broadcastHub, env, rooms, roomId, members, history, send, conn, wp, hmuR, rmuR,
                   recv, dropped, appended>>

BroadcastSend(c) ==
    /\ pc[c] = "bcast_send"
    /\ ~BroadcastFull
    /\ broadcast' = Append(broadcast, loc[c].msg)
    /\ pc' = [pc EXCEPT ![c] = "read"]
    /\ loc' = [loc EXCEPT ![c] = LocInit]
    /\ UNCHANGED <<broadcastHub, env, rooms, roomId, members, history, send, conn, wp, hmuR, rmuR,
                   count, recv, dropped, appended>>

\* ReadJSON returns a frame of type "command": handleCommand(c, msg.Text)
ReadCommand(c, cmd) ==
    /\ pc[c] = "read"
    /\ conn[c] = "open"
    /\ count.cmds < env.cmds
    /\ cmd \in env.cmdset
    /\ count' = [count EXCEPT !.cmds = @ + 1]
    /\ LET k == count.cmds + 1
       IN  CASE cmd = <<"/users">> ->
                  /\ pc' = [pc EXCEPT ![c] = "ul_lookup"]
                  /\ loc' = [loc EXCEPT ![c] =
                               Call(c, ClientRoom(c),
                                    [NoMsg EXCEPT !.src = <<"user_list", c, Itoa(k)>>],
                                    "read")]
              [] cmd = <<"/stats">> ->
                  /\ pc' = [pc EXCEPT ![c] = "stats_rlock"]
                  /\ loc' = [loc EXCEPT ![c].msg = [NoMsg EXCEPT !.src = <<"reply", c, Itoa(k)>>]]
              [] cmd = <<"/rooms">> ->
                  /\ pc' = [pc EXCEPT ![c] = "rooms_rlock"]
                  /\ loc' = [loc EXCEPT ![c].msg = [NoMsg EXCEPT !.src = <<"reply", c, Itoa(k)>>]]
              [] OTHER ->
                  /\ pc' = [pc EXCEPT ![c] = "reply"]
                  /\ loc' = [loc EXCEPT ![c].msg = UnknownReply(c, k)]
    /\ UNCHANGED <<broadcastHub, env, rooms, roomId, members, history, broadcast, send, conn, wp,
                   hmuR, rmuR, recv, dropped, appended>>

\* case "/rooms": h.mu.RLock(); collect the names; h.mu.RUnlock()
CmdRooms(c) ==
    /\ pc[c] = "rooms_rlock"
    /\ CanRLockH
    /\ pc' = [pc EXCEPT ![c] = "reply"]
    /\ loc' = [loc EXCEPT ![c].msg =
                 [RoomsReply(c, rooms, 0) EXCEPT !.src = loc[c].msg.src]]
    /\ UNCHANGED <<broadcastHub, env, rooms, roomId, members, history, broadcast, send, conn, wp,
                   hmuR, rmuR, count, recv, dropped, appended>>

\* case "/stats": h.mu.RLock(), held over the walk of h.rooms
CmdStatsRLock(c) ==
    /\ pc[c] = "stats_rlock"
    /\ CanRLockH
    /\ hmuR' = hmuR \cup {c}
    /\ pc' = [pc EXCEPT ![c] = "stats_room"]
    /\ loc' = [loc EXCEPT ![c].rtodo = rooms]
    /\ UNCHANGED <<broadcastHub, env, rooms, roomId, members, history, broadcast, send, conn, wp,
                   rmuR, count, recv, dropped, appended>>

\* room.mu.RLock(); roomDetails[name] = len(room.Clients); room.mu.RUnlock()
CmdStatsRoom(c, r) ==
    /\ pc[c] = "stats_room"
    /\ r \in loc[c].rtodo
    /\ CanRLockR(r)
    /\ loc' = [loc EXCEPT ![c].rtodo = @ \ {r},
                          ![c].stats = @ \cup {<<r, Itoa(Cardinality(members[r])),
                                                Cardinality(members[r])>>}]
    /\ UNCHANGED <<broadcastHub, env, rooms, roomId, members, history, broadcast, send, conn, pc,
                   wp, hmuR, rmuR, count, recv, dropped, appended>>

\* h.mu.RUnlock(); the totals and the reply are built
CmdStatsDone(c) ==
    /\ pc[c] = "stats_room"
    /\ loc[c].rtodo = {}
    /\ hmuR' = hmuR \ {c}
    /\ pc' = [pc EXCEPT ![c] = "reply"]
    /\ loc' = [loc EXCEPT ![c].msg =
                 [StatsReply(c, loc[c].stats, 0) EXCEPT !.src = loc[c].msg.src],
                          ![c].stats = {}]
    /\ UNCHANGED <<broadcastHub, env, rooms, roomId, members, history, broadcast, send, conn, wp,
                   rmuR, count, recv, dropped, appended>>

\* client.send <- Message{...}, the reply of /stats, /rooms and the default
CmdReply(c) ==
    /\ pc[c] = "reply"
    /\ BlockingSend(c, loc[c].msg)
    /\ pc' = [pc EXCEPT ![c] = "read"]
    /\ loc' = [loc EXCEPT ![c] = LocInit]
    /\ UNCHANGED <<broadcastHub, env, rooms, roomId, members, history, broadcast, conn, wp, hmuR,
                   rmuR, count, appended>>

\* ReadJSON fails (the peer closed, the transport broke, the frame was
\* malformed, or the connection was closed by writePump): the loop breaks
\* and the deferred function sends on hub.unregister
ReadError(c) ==
    /\ pc[c] = "read"
    /\ IF conn[c] = "closed"
       THEN UNCHANGED count
       ELSE /\ count.leaves < env.leaves
            /\ count' = [count EXCEPT !.leaves = @ + 1]
    /\ pc' = [pc EXCEPT ![c] = "unreg_send"]
    /\ UNCHANGED <<broadcastHub, env, rooms, roomId, members, history, broadcast, send, conn, wp,
                   loc, hmuR, rmuR, recv, dropped, appended>>

(***************************************************************************)
(* writePump: the outbound duty of session c.                              *)
(***************************************************************************)
\* a process is about to send to the mailbox of c
SendPending(c) ==
    \/ \E p \in Procs : pc[p] = "bc_deliver" /\ c \in loc[p].todo
    \/ pc[Hub] = "add_replay" /\ loc[Hub].c = c /\ loc[Hub].hist # <<>>
    \/ pc[c] = "reply"
    \/ \E p \in Routers : pc[p] = "route_user_client" /\ c \in loc[p].todo

\* m := <-c.send; c.conn.WriteJSON(m) succeeds.  Taking a message from a
\* mailbox changes what another process does only at its next send to that
\* mailbox, so the step is taken when such a send is about to happen
WriteOk(c) ==
    /\ wp[c] = "run"
    /\ send[c] # <<>>
    /\ SendPending(c)
    /\ conn[c] = "open"
    /\ send' = [send EXCEPT ![c] = Tail(@)]
    /\ UNCHANGED <<broadcastHub, env, rooms, roomId, members, history, broadcast, conn, pc, wp,
                   loc, hmuR, rmuR, count, recv, dropped, appended>>

\* m := <-c.send; c.conn.WriteJSON(m) fails; break; c.conn.Close()
WriteError(c) ==
    /\ wp[c] = "run"
    /\ send[c] # <<>>
    /\ conn[c] = "open"
    /\ count.werrs < env.werrs
    /\ count' = [count EXCEPT !.werrs = @ + 1]
    /\ send' = [send EXCEPT ![c] = Tail(@)]
    /\ wp' = [wp EXCEPT ![c] = "exit"]
    /\ conn' = [conn EXCEPT ![c] = "closed"]
    /\ UNCHANGED <<broadcastHub, env, rooms, roomId, members, history, broadcast, pc, loc, hmuR,
                   rmuR, recv, dropped, appended>>

\* m := <-c.send; c.conn.WriteJSON(m) fails because readPump has closed the
\* connection; break; c.conn.Close()
WriteClosed(c) ==
    /\ wp[c] = "run"
    /\ send[c] # <<>>
    /\ conn[c] = "closed"
    /\ send' = [send EXCEPT ![c] = Tail(@)]
    /\ wp' = [wp EXCEPT ![c] = "exit"]
    /\ UNCHANGED <<broadcastHub, env, rooms, roomId, members, history, broadcast, conn, pc, loc,
                   hmuR, rmuR, count, recv, dropped, appended>>

(***************************************************************************)
(* handleNotification / routeNotification, run by an admin request p.      *)
(***************************************************************************)
\* a variant of RouteSubmit that adds the notification to the history only
\* in the cases of the switch
RouteSubmitKnownTarget(p, target) ==
    /\ pc[p] = "idle"
    /\ count.notifs < Len(env.past) + env.notifs
    /\ target \in env.targets
    /\ p \in env.admins
    /\ count' = [count EXCEPT !.notifs = @ + 1]
    /\ LET k == count.notifs + 1
           n == Notif(k, target)
           known == \/ target = AllTarget
                    \/ HasPrefix(target, RoomPrefix)
                    \/ HasPrefix(target, UserPrefix)
       IN  /\ history' = IF known THEN AddNotification(history, n) ELSE history
           /\ appended' = IF known THEN Append(appended, n) ELSE appended
           /\ loc' = [loc EXCEPT ![p].n = n]
    /\ pc' = [pc EXCEPT ![p] = "route"]
    /\ UNCHANGED <<broadcastHub, env, rooms, roomId, members, broadcast, send, conn, wp, hmuR,
                   rmuR, recv, dropped>>

\* the body of the request is bound to a Notification and
\* routeNotification(notif) begins with h.addNotification(n)
RouteSubmit(p, target) ==
    /\ pc[p] = "idle"
    /\ count.notifs < Len(env.past) + env.notifs
    /\ target \in env.targets
    /\ p \in env.admins
    /\ count' = [count EXCEPT !.notifs = @ + 1]
    /\ LET k == count.notifs + 1
           n == Notif(k, target)
       IN  /\ history' = AddNotification(history, n)
           /\ appended' = Append(appended, n)
           /\ loc' = [loc EXCEPT ![p].n = n]
    /\ pc' = [pc EXCEPT ![p] = "route"]
    /\ UNCHANGED <<broadcastHub, env, rooms, roomId, members, broadcast, send, conn, wp, hmuR,
                   rmuR, recv, dropped>>

\* case n.Target == "all": h.mu.RLock(), held over the walk of h.rooms
RouteAll(p) ==
    /\ pc[p] = "route"
    /\ loc[p].n.target = AllTarget
    /\ CanRLockH
    /\ hmuR' = hmuR \cup {p}
    /\ pc' = [pc EXCEPT ![p] = "route_all"]
    /\ loc' = [loc EXCEPT ![p].rtodo = rooms]
    /\ UNCHANGED <<broadcastHub, env, rooms, roomId, members, history, broadcast, send, conn, wp,
                   rmuR, count, recv, dropped, appended>>

\* a variant of RouteAllRoom that leaves the walk after the first room
RouteAllRoomOnlyFirst(p, r) ==
    /\ pc[p] = "route_all"
    /\ r \in loc[p].rtodo
    /\ pc' = [pc EXCEPT ![p] = "bc_lookup"]
    /\ loc' = [loc EXCEPT ![p] =
                 [Call(p, r, LiveMsg(r, loc[p].n), "route_all")
                    EXCEPT !.rtodo = {}]]
    /\ UNCHANGED <<broadcastHub, env, rooms, roomId, members, history, broadcast, send, conn, wp,
                   hmuR, rmuR, count, recv, dropped, appended>>

\* one turn of: for name := range h.rooms { h.broadcastToRoom(name, system) }
RouteAllRoom(p, r) ==
    /\ pc[p] = "route_all"
    /\ r \in loc[p].rtodo
    /\ pc' = [pc EXCEPT ![p] = "bc_lookup"]
    /\ loc' = [loc EXCEPT ![p] =
                 [Call(p, r, LiveMsg(r, loc[p].n), "route_all")
                    EXCEPT !.rtodo = @ \ {r}]]
    /\ UNCHANGED <<broadcastHub, env, rooms, roomId, members, history, broadcast, send, conn, wp,
                   hmuR, rmuR, count, recv, dropped, appended>>

\* the walk is over: h.mu.RUnlock()
RouteAllDone(p) ==
    /\ pc[p] = "route_all"
    /\ loc[p].rtodo = {}
    /\ hmuR' = hmuR \ {p}
    /\ pc' = [pc EXCEPT ![p] = "idle"]
    /\ loc' = [loc EXCEPT ![p] = LocInit]
    /\ UNCHANGED <<broadcastHub, env, rooms, roomId, members, history, broadcast, send, conn, wp,
                   rmuR, count, recv, dropped, appended>>

\* a variant of RouteRoom that does not strip the prefix from the target
RouteRoomUntrimmed(p) ==
    /\ pc[p] = "route"
    /\ loc[p].n.target # AllTarget
    /\ HasPrefix(loc[p].n.target, RoomPrefix)
    /\ LET room == loc[p].n.target
       IN  loc' = [loc EXCEPT ![p] = Call(p, room, LiveMsg(room, loc[p].n), "idle")]
    /\ pc' = [pc EXCEPT ![p] = "bc_lookup"]
    /\ UNCHANGED <<broadcastHub, env, rooms, roomId, members, history, broadcast, send, conn, wp,
                   hmuR, rmuR, count, recv, dropped, appended>>

\* case strings.HasPrefix(n.Target, "room:")
RouteRoom(p) ==
    /\ pc[p] = "route"
    /\ loc[p].n.target # AllTarget
    /\ HasPrefix(loc[p].n.target, RoomPrefix)
    /\ LET room == TrimPrefix(loc[p].n.target, RoomPrefix)
       IN  loc' = [loc EXCEPT ![p] = Call(p, room, LiveMsg(room, loc[p].n), "idle")]
    /\ pc' = [pc EXCEPT ![p] = "bc_lookup"]
    /\ UNCHANGED <<broadcastHub, env, rooms, roomId, members, history, broadcast, send, conn, wp,
                   hmuR, rmuR, count, recv, dropped, appended>>

\* case strings.HasPrefix(n.Target, "user:"): h.mu.RLock(), held over the
\* walk of h.rooms
RouteUser(p) ==
    /\ pc[p] = "route"
    /\ loc[p].n.target # AllTarget
    /\ ~HasPrefix(loc[p].n.target, RoomPrefix)
    /\ HasPrefix(loc[p].n.target, UserPrefix)
    /\ CanRLockH
    /\ hmuR' = hmuR \cup {p}
    /\ pc' = [pc EXCEPT ![p] = "route_user"]
    /\ loc' = [loc EXCEPT ![p].rtodo = rooms]
    /\ UNCHANGED <<broadcastHub, env, rooms, roomId, members, history, broadcast, send, conn, wp,
                   rmuR, count, recv, dropped, appended>>

\* one turn of the walk of h.rooms: room.mu.RLock(); a room without a member
\* is unlocked in the same step
RouteUserRoom(p, r) ==
    /\ pc[p] = "route_user"
    /\ r \in loc[p].rtodo
    /\ CanRLockR(r)
    /\ IF members[r] = {}
       THEN /\ loc' = [loc EXCEPT ![p].rtodo = @ \ {r}]
            /\ UNCHANGED <<pc, rmuR>>
       ELSE /\ loc' = [loc EXCEPT ![p].rtodo = @ \ {r}, ![p].room = r,
                                  ![p].todo = members[r]]
            /\ rmuR' = [rmuR EXCEPT ![r] = @ \cup {p}]
            /\ pc' = [pc EXCEPT ![p] = "route_user_client"]
    /\ UNCHANGED <<broadcastHub, env, rooms, roomId, members, history, broadcast, send, conn, wp,
                   hmuR, count, recv, dropped, appended>>

\* a variant of RouteUserClient that takes every username that begins with
\* the name of the target
RouteUserClientPrefix(p, c) ==
    /\ pc[p] = "route_user_client"
    /\ c \in loc[p].todo
    /\ IF HasPrefix(ClientUser(c), TrimPrefix(loc[p].n.target, UserPrefix))
       THEN BlockingSend(c, LiveMsg(loc[p].room, loc[p].n))
       ELSE UNCHANGED <<send, recv, dropped>>
    /\ IF loc[p].todo = {c}
       THEN /\ pc' = [pc EXCEPT ![p] = "route_user"]
            /\ loc' = [loc EXCEPT ![p].todo = {}, ![p].room = <<>>]
            /\ rmuR' = [rmuR EXCEPT ![loc[p].room] = @ \ {p}]
       ELSE /\ loc' = [loc EXCEPT ![p].todo = @ \ {c}]
            /\ UNCHANGED <<pc, rmuR>>
    /\ UNCHANGED <<broadcastHub, env, rooms, roomId, members, history, broadcast, conn, wp, hmuR,
                   count, appended>>

\* one turn of: for c := range room.Clients { if c.username == user
\* { c.send <- Message{...} } }, and after the last one room.mu.RUnlock()
RouteUserClient(p, c) ==
    /\ pc[p] = "route_user_client"
    /\ c \in loc[p].todo
    /\ IF ClientUser(c) = TrimPrefix(loc[p].n.target, UserPrefix)
       THEN BlockingSend(c, LiveMsg(loc[p].room, loc[p].n))
       ELSE UNCHANGED <<send, recv, dropped>>
    /\ IF loc[p].todo = {c}
       THEN /\ pc' = [pc EXCEPT ![p] = "route_user"]
            /\ loc' = [loc EXCEPT ![p].todo = {}, ![p].room = <<>>]
            /\ rmuR' = [rmuR EXCEPT ![loc[p].room] = @ \ {p}]
       ELSE /\ loc' = [loc EXCEPT ![p].todo = @ \ {c}]
            /\ UNCHANGED <<pc, rmuR>>
    /\ UNCHANGED <<broadcastHub, env, rooms, roomId, members, history, broadcast, conn, wp, hmuR,
                   count, appended>>

\* the walk is over: h.mu.RUnlock()
RouteUserDone(p) ==
    /\ pc[p] = "route_user"
    /\ loc[p].rtodo = {}
    /\ hmuR' = hmuR \ {p}
    /\ pc' = [pc EXCEPT ![p] = "idle"]
    /\ loc' = [loc EXCEPT ![p] = LocInit]
    /\ UNCHANGED <<broadcastHub, env, rooms, roomId, members, history, broadcast, send, conn, wp,
                   rmuR, count, recv, dropped, appended>>

\* no case of the switch matches: routeNotification returns
RouteNone(p) ==
    /\ pc[p] = "route"
    /\ loc[p].n.target # AllTarget
    /\ ~HasPrefix(loc[p].n.target, RoomPrefix)
    /\ ~HasPrefix(loc[p].n.target, UserPrefix)
    /\ pc' = [pc EXCEPT ![p] = "idle"]
    /\ loc' = [loc EXCEPT ![p] = LocInit]
    /\ UNCHANGED <<broadcastHub, env, rooms, roomId, members, history, broadcast, send, conn, wp,
                   hmuR, rmuR, count, recv, dropped, appended>>

(***************************************************************************)
(* The system.                                                             *)
(***************************************************************************)
HubStep ==
    \/ \E c \in Clients : HubRecvRegister(c)
    \/ \E c \in Clients : HubRecvUnregister(c)
    \/ HubRecvBroadcast
    \/ GetOrCreateRoom
    \/ GetOrCreateRoomWait
    \/ AddInsert
    \/ AddInsertWait
    \/ AddCopyHistory
    \/ AddReplay
    \/ AddUserList
    \/ RemLookup
    \/ RemDelete
    \/ RemDeleteWait
    \/ RemUserList
    \/ RemDirDelete
    \/ RemDirDeleteWait

CallStep ==
    \/ \E p \in Procs : BcLookup(p)
    \/ \E p \in Procs : BcRLock(p)
    \/ \E p \in Procs : \E c \in Clients : BcDeliver(p, c)
    \/ \E p \in Procs : UlLookup(p)
    \/ \E p \in Procs : UlSnapshot(p)

SessionStep ==
    \/ \E c \in Clients : \E t \in FrameTypes : \E u \in Usernames :
         \E r \in RoomNames : ReadFrame(c, t, u, r, <<"hi">>)
    \/ \E c \in Clients : BroadcastSend(c)
    \/ \E c \in Clients : \E cmd \in Commands : ReadCommand(c, cmd)
    \/ \E c \in Clients : CmdRooms(c)
    \/ \E c \in Clients : CmdStatsRLock(c)
    \/ \E c \in Clients : \E r \in RoomNames : CmdStatsRoom(c, r)
    \/ \E c \in Clients : CmdStatsDone(c)
    \/ \E c \in Clients : CmdReply(c)
    \/ \E c \in Clients : ReadError(c)
    \/ \E c \in Clients : WriteOk(c)
    \/ \E c \in Clients : WriteError(c)
    \/ \E c \in Clients : WriteClosed(c)

RouterStep ==
    \/ \E p \in Routers : \E t \in Targets : RouteSubmit(p, t)
    \/ \E p \in Routers : RouteAll(p)
    \/ \E p \in Routers : \E r \in RoomNames : RouteAllRoom(p, r)
    \/ \E p \in Routers : RouteAllDone(p)
    \/ \E p \in Routers : RouteRoom(p)
    \/ \E p \in Routers : RouteUser(p)
    \/ \E p \in Routers : \E r \in RoomNames : RouteUserRoom(p, r)
    \/ \E p \in Routers : \E c \in Clients : RouteUserClient(p, c)
    \/ \E p \in Routers : RouteUserDone(p)
    \/ \E p \in Routers : RouteNone(p)

Next == HubStep \/ CallStep \/ SessionStep \/ RouterStep

Spec == Init /\ [][Next]_vars

(***************************************************************************)
(* Scheduling.  Every goroutine that can take a step of its own code does  *)
(* so in the end: the Hub loop, the rest of a command or of a queue send   *)
(* in readPump, writePump (the peer takes what is written to an open       *)
(* connection) and the rest of routeNotification.  What a peer or an admin *)
(* sends, and when a connection fails, is up to them.                      *)
(***************************************************************************)
CallOf(p) ==
    \/ BcLookup(p)
    \/ BcRLock(p)
    \/ \E c \in Clients : BcDeliver(p, c)
    \/ UlLookup(p)
    \/ UlSnapshot(p)

HubProgress == HubStep \/ CallOf(Hub)

ReadPumpProgress(c) ==
    \/ CallOf(c)
    \/ BroadcastSend(c)
    \/ CmdRooms(c)
    \/ CmdStatsRLock(c)
    \/ \E r \in RoomNames : CmdStatsRoom(c, r)
    \/ CmdStatsDone(c)
    \/ CmdReply(c)

RouterProgress(p) ==
    \/ CallOf(p)
    \/ RouteAll(p)
    \/ \E r \in RoomNames : RouteAllRoom(p, r)
    \/ RouteAllDone(p)
    \/ RouteRoom(p)
    \/ RouteUser(p)
    \/ \E r \in RoomNames : RouteUserRoom(p, r)
    \/ \E c \in Clients : RouteUserClient(p, c)
    \/ RouteUserDone(p)
    \/ RouteNone(p)

Fairness ==
    /\ WF_vars(HubProgress)
    /\ \A c \in Clients : WF_vars(ReadPumpProgress(c))
    /\ \A c \in Clients : WF_vars(WriteOk(c) \/ WriteClosed(c))
    /\ \A p \in Routers : WF_vars(RouterProgress(p))

LiveSpec == Init /\ [][Next]_vars /\ Fairness

(***************************************************************************)
(* removeClientFromRoom as a function of its argument.  The program sends  *)
(* a session to unregister once, from the deferred function of readPump;   *)
(* here the Hub loop is also handed a session that it has removed before,  *)
(* in any state in which it is at its select.                              *)
(***************************************************************************)
UnregisterAgain(c) ==
    /\ pc[Hub] = "select"
    /\ pc[c] = "done"
    /\ count.again < MaxAgain
    /\ count' = [count EXCEPT !.again = @ + 1]
    /\ pc' = [pc EXCEPT ![Hub] = "rem_lookup"]
    /\ loc' = [loc EXCEPT ![Hub].c = c, ![Hub].again = TRUE]
    /\ UNCHANGED <<broadcastHub, env, rooms, roomId, members, history, broadcast, send, conn, wp,
                   hmuR, rmuR, recv, dropped, appended>>

NextAgain == Next \/ \E c \in Clients : UnregisterAgain(c)

SpecUnregisterAgain == Init /\ [][NextAgain]_vars

(***************************************************************************)
(* What the sessions have been sent.                                       *)
(***************************************************************************)
Received(c) == {recv[c][i].src : i \in 1..Len(recv[c])}

\* the messages made from the notification with this id that are in the log
\* of c: live deliveries and replays at its registration
NotifEvents(c, id) ==
    {i \in 1..Len(recv[c]) :
        /\ recv[c][i].src[1] \in {"notif", "replay"}
        /\ recv[c][i].src[2] = id}

\* c has been sent a live system event of notification n
LiveEvent(c, n) ==
    \E i \in 1..Len(recv[c]) :
        /\ recv[c][i].src = <<"notif", n.id, "">>
        /\ recv[c][i].type = MsgSystem

\* the k-th notification was submitted in this run and routeNotification has
\* returned for it
Routed(k) ==
    /\ k > Len(env.past)
    /\ k <= Len(appended)
    /\ \A p \in Routers : loc[p].n.id # appended[k].id

\* c was registered before the run and is still a member of its room
Settled(c) == c \in Joined(env) /\ c \in members[ClientRoom(c)]

\* no two sessions of one room hold two events of these kinds in opposite
\* orders
SameOrder(kinds) ==
    \A a, b \in Clients :
      (a # b /\ ClientRoom(a) = ClientRoom(b)) =>
        \A i \in 1..Len(recv[a]) : \A j \in (i + 1)..Len(recv[a]) :
          (recv[a][i].src[1] \in kinds /\ recv[a][j].src[1] \in kinds) =>
            \A l \in 1..Len(recv[b]) :
              recv[b][l].src = recv[a][j].src =>
                \A k \in (l + 1)..Len(recv[b]) :
                  recv[b][k].src # recv[a][i].src

(***************************************************************************)
(* C1.  Whenever the Hub loop is between two steps (every register and     *)
(* unregister step it began has run to completion), a room name is a key   *)
(* of the room directory if and only if the member set of that room is not *)
(* empty.                                                                  *)
(***************************************************************************)
C1_DirectoryIffMembers ==
    pc[Hub] = "select" =>
      \A r \in RoomNames : r \in rooms <=> members[r] # {}

\* the only member of a room has left and the room is gone, while another
\* room is still there with its member
C1_Witness ==
    /\ pc[Hub] = "select"
    /\ \E c \in Clients : pc[c] = "done" /\ ClientRoom(c) \notin rooms
    /\ \E r \in rooms : members[r] # {}

(***************************************************************************)
(* C2.  A member at whose full mailbox a delivery to its room was dropped  *)
(* has been unregistered by that delivery: it is no longer in the member   *)
(* set of its room.                                                        *)
(***************************************************************************)
C2_FullMailboxUnregisters ==
    \A c \in Clients :
      dropped[c] # {} => c \notin members[ClientRoom(c)]

(***************************************************************************)
(* C3.  No register step (history replay), notification delivery or        *)
(* command reply waits on a full mailbox: no process is at a send to a     *)
(* session whose mailbox is full.                                          *)
(***************************************************************************)
WaitsOn(c) ==
    \/ /\ pc[Hub] = "add_replay"
       /\ loc[Hub].c = c
       /\ loc[Hub].hist # <<>>
       /\ ReplayMatches(Head(loc[Hub].hist), c)
    \/ pc[c] = "reply"
    \/ \E p \in Routers :
         /\ pc[p] = "route_user_client"
         /\ c \in loc[p].todo
         /\ ClientUser(c) = TrimPrefix(loc[p].n.target, UserPrefix)

C3_NoSendWaitsOnFullMailbox ==
    \A c \in Clients : ~(Full(c) /\ WaitsOn(c))

(***************************************************************************)
(* C4.  No two members of a room receive the events of two operations      *)
(* (register, unregister, broadcast, notification dispatch, /users) in     *)
(* opposite orders.                                                        *)
(***************************************************************************)
C4_OperationsNotInterleaved ==
    SameOrder({"join", "leave", "frame", "user_list", "notif"})

(***************************************************************************)
(* C5.  Any two members of a room that both receive two join, leave or     *)
(* chat events receive them in the same relative order.                    *)
(***************************************************************************)
C5_SameRelativeOrder ==
    SameOrder({"join", "leave", "frame"})

\* two members of a room have both been sent a frame and a join or leave
\* event
C5_Witness ==
    \E a, b \in Clients :
      /\ a # b
      /\ ClientRoom(a) = ClientRoom(b)
      /\ \E x, y \in Received(a) \cap Received(b) :
           x[1] = "frame" /\ y[1] \in {"join", "leave"}

(***************************************************************************)
(* C6.  A member never receives the leave event of a session before a      *)
(* frame that this session sent to the broadcast queue (which it did       *)
(* before it sent its unregister request).                                 *)
(***************************************************************************)
C6_ChatBeforeOwnLeave ==
    \A m \in Clients :
      \A i \in 1..Len(recv[m]) : \A j \in (i + 1)..Len(recv[m]) :
        ~(/\ recv[m][i].src[1] = "leave"
          /\ recv[m][j].src[1] = "frame"
          /\ recv[m][j].src[2] = recv[m][i].src[2])

(***************************************************************************)
(* C7.  A notification with target room:X is sent, live or by replay, only *)
(* to sessions of room X; and once routeNotification has returned, every   *)
(* session that was and still is a member of room X has been sent it as a  *)
(* system event, unless its mailbox was full.                              *)
(***************************************************************************)
C7_RoomTarget ==
    \A k \in 1..Len(appended) :
      LET n == appended[k]
          X == TrimPrefix(n.target, RoomPrefix)
      IN  (n.target # AllTarget /\ HasPrefix(n.target, RoomPrefix)) =>
            /\ \A c \in Clients :
                 NotifEvents(c, n.id) # {} => ClientRoom(c) = X
            /\ Routed(k) =>
                 \A c \in Clients :
                   (ClientRoom(c) = X /\ Settled(c)) =>
                     \/ LiveEvent(c, n)
                     \/ <<"notif", n.id, "">> \in dropped[c]

\* a notification to room a has been routed: a member of room a has it and
\* a member of room b has not
C7_Witness ==
    \E k \in 1..Len(appended) :
      /\ appended[k].target = RoomPrefix \o <<"a">>
      /\ Routed(k)
      /\ \E c, d \in Clients :
           /\ Settled(c) /\ ClientRoom(c) = <<"a">>
           /\ LiveEvent(c, appended[k])
           /\ Settled(d) /\ ClientRoom(d) = <<"b">>
           /\ NotifEvents(d, appended[k].id) = {}

(***************************************************************************)
(* C8.  A notification with target user:U is sent, live or by replay, only *)
(* to sessions whose username is U; and once routeNotification has         *)
(* returned, every session of that name that was and still is registered,  *)
(* in whatever room, has been sent it as a system event.                   *)
(***************************************************************************)
C8_UserTarget ==
    \A k \in 1..Len(appended) :
      LET n == appended[k]
          U == TrimPrefix(n.target, UserPrefix)
      IN  (/\ n.target # AllTarget
           /\ ~HasPrefix(n.target, RoomPrefix)
           /\ HasPrefix(n.target, UserPrefix)) =>
            /\ \A c \in Clients :
                 NotifEvents(c, n.id) # {} => ClientUser(c) = U
            /\ Routed(k) =>
                 \A c \in Clients :
                   (ClientUser(c) = U /\ Settled(c)) => LiveEvent(c, n)

\* a notification to user u has been routed: two sessions of that name in
\* different rooms have it, and a session of another name has not
C8_Witness ==
    \E k \in 1..Len(appended) :
      /\ appended[k].target = UserPrefix \o <<"u">>
      /\ Routed(k)
      /\ \E c, d, e \in Clients :
           /\ ClientRoom(c) # ClientRoom(d)
           /\ LiveEvent(c, appended[k]) /\ LiveEvent(d, appended[k])
           /\ Settled(e) /\ ClientUser(e) # <<"u">>
           /\ NotifEvents(e, appended[k].id) = {}

(***************************************************************************)
(* C9.  Once routeNotification has returned for a notification with target *)
(* all, every session that was and still is registered, in whatever room,  *)
(* either found its mailbox full or has been sent exactly one event of     *)
(* that notification, a system event whose text contains the title and the *)
(* message.                                                                *)
(***************************************************************************)
C9_AllTarget ==
    \A k \in 1..Len(appended) :
      LET n == appended[k]
      IN  (n.target = AllTarget /\ Routed(k)) =>
            \A c \in Clients :
              Settled(c) =>
                \/ <<"notif", n.id, "">> \in dropped[c]
                \/ /\ Cardinality(NotifEvents(c, n.id)) = 1
                   /\ \A i \in NotifEvents(c, n.id) :
                        /\ recv[c][i].type = MsgSystem
                        /\ Contains(recv[c][i].text, n.title)
                        /\ Contains(recv[c][i].text, n.message)

\* a notification to all has been routed and the three sessions of the two
\* rooms have it
C9_Witness ==
    \E k \in 1..Len(appended) :
      /\ appended[k].target = AllTarget
      /\ Routed(k)
      /\ Cardinality({ClientRoom(c) : c \in Clients}) > 1
      /\ \A c \in Clients : Settled(c) /\ LiveEvent(c, appended[k])

(***************************************************************************)
(* C10.  Every notification submitted is in the list of those added to the *)
(* history, whatever its target; while routeNotification runs for it, it   *)
(* is an entry of the history unless as many later ones as the history     *)
(* keeps have displaced it; and no session has been sent a live event of a *)
(* notification that was not added.                                        *)
(***************************************************************************)
C10_HistoryFirst ==
    /\ Len(appended) = count.notifs
    /\ \A p \in Routers :
         pc[p] # "idle" =>
           \E k \in 1..Len(appended) :
             /\ appended[k] = loc[p].n
             /\ \/ \E i \in 1..Len(history) : history[i] = loc[p].n
                \/ Len(appended) - k >= HistoryCap
    /\ \A c \in Clients : \A i \in 1..Len(recv[c]) :
         recv[c][i].src[1] = "notif" =>
           \E k \in 1..Len(appended) : appended[k].id = recv[c][i].src[2]

\* three notifications have been routed in a run: one to all, which the
\* session has, and one with an unrecognized target, which nobody has
C10_Witness ==
    /\ Len(appended) > HistoryCap
    /\ \A p \in Routers : pc[p] = "idle"
    /\ \E k, l \in 1..Len(appended) :
         /\ appended[k].target = AllTarget
         /\ \E c \in Clients : LiveEvent(c, appended[k])
         /\ appended[l].target = <<"a", "l">>
         /\ \A c \in Clients : NotifEvents(c, appended[l].id) = {}

(***************************************************************************)
(* C11: the notification history never holds more than HistoryCap entries, *)
(* and after k notifications were submitted it is the last                 *)
(* min(k, HistoryCap) of them in the order of their submission, also when  *)
(* two admin requests submit at the same time.                             *)
(***************************************************************************)
C11_HistoryIsLastSubmissions ==
    LET k == Len(appended)
        kept == Min(k, HistoryCap)
    IN  /\ Len(history) <= HistoryCap
        /\ history = SubSeq(appended, k - kept + 1, k)

\* more submissions than the history keeps, the last of them made while
\* another admin request was still being routed
C11_Witness ==
    /\ Len(appended) > HistoryCap
    /\ Len(appended) > Len(env.past)
    /\ \A p \in Routers : pc[p] # "idle"
    /\ Len(history) = HistoryCap
    /\ history[HistoryCap] = appended[Len(appended)]
    /\ appended[1] \notin {history[i] : i \in 1..Len(history)}

(***************************************************************************)
(* Where the Hub loop is in the registration or the removal of session c.  *)
(***************************************************************************)
\* c is in the member set of the room it names
InRoom(c) == c \in members[ClientRoom(c)]

\* the Hub loop has received the registration of c and not yet inserted it
BeforeInsert(c) ==
    /\ loc[Hub].c = c
    /\ pc[Hub] \in {"add_getroom", "add_getroom_wait", "add_insert",
                     "add_insert_wait"}

\* the Hub loop has received c from unregister and not yet deleted it
BeforeDelete(c) ==
    /\ loc[Hub].c = c
    /\ pc[Hub] \in {"rem_lookup", "rem_delete", "rem_delete_wait"}

\* the insert of addClientToRoom(c) has run
Registered(c) == pc[c] \notin {"off", "reg_send"} /\ ~BeforeInsert(c)

\* the delete of removeClientFromRoom(c) has run
Unregistered(c) == pc[c] = "done" /\ ~BeforeDelete(c)

(***************************************************************************)
(* C12: a session is in the member set of no room but the one it names,    *)
(* and it is in that member set exactly when it has been registered and    *)
(* not yet unregistered.                                                   *)
(***************************************************************************)
C12_MemberIffRegistered ==
    \A c \in Clients :
      /\ \A r \in RoomNames : c \in members[r] => r = ClientRoom(c)
      /\ InRoom(c) <=> (Registered(c) /\ ~Unregistered(c))

\* one session has left its room and another has entered a different room
\* since the start
C12_Witness ==
    \E c \in Clients, d \in env.waiting :
      /\ c # d
      /\ Unregistered(c) /\ ~InRoom(c)
      /\ Registered(d) /\ InRoom(d)
      /\ ClientRoom(c) # ClientRoom(d)

(***************************************************************************)
(* The frames read so far and their copies in the mailboxes.               *)
(***************************************************************************)
\* the source tag of the k-th frame read
FrameSrc(k) == <<"frame", count.frames[k].c, Itoa(k)>>

\* the message is still in the broadcast queue or in the hands of a process
InFlight(src) ==
    \/ \E i \in 1..Len(broadcast) : broadcast[i].src = src
    \/ \E p \in Procs : loc[p].msg.src = src

\* the positions of the copies of a message in the log of m
Copies(m, src) == {i \in 1..Len(recv[m]) : recv[m][i].src = src}

(***************************************************************************)
(* C13: the broadcast of a chat frame to its sender's room puts exactly    *)
(* one copy in the mailbox of every member whose mailbox has room for it,  *)
(* none in a mailbox of another room, and every copy carries the sender's  *)
(* room and username and the text of the frame.                            *)
(***************************************************************************)
C13_ChatToEveryMemberOnce ==
    \A k \in 1..count.chats :
      LET f == count.frames[k]
          r == ClientRoom(f.c)
      IN  \A m \in Clients :
            /\ Cardinality(Copies(m, FrameSrc(k))) <= 1
            /\ ClientRoom(m) # r => Copies(m, FrameSrc(k)) = {}
            /\ \A i \in Copies(m, FrameSrc(k)) :
                  /\ recv[m][i].room = r
                  /\ recv[m][i].username = ClientUser(f.c)
                  /\ recv[m][i].text = f.text
            /\ (/\ ~InFlight(FrameSrc(k))
                /\ Settled(m)
                /\ ClientRoom(m) = r
                /\ FrameSrc(k) \notin dropped[m])
               => Copies(m, FrameSrc(k)) # {}

\* a frame was broadcast to a room of two, none of them at capacity: each
\* holds one copy and the session in the other room holds none
C13_Witness ==
    \E k \in 1..count.chats : \E a, b, o \in Clients :
      /\ a # b
      /\ ~InFlight(FrameSrc(k))
      /\ members[ClientRoom(count.frames[k].c)] = {a, b}
      /\ Cardinality(Copies(a, FrameSrc(k))) = 1
      /\ Cardinality(Copies(b, FrameSrc(k))) = 1
      /\ dropped[a] = {} /\ dropped[b] = {}
      /\ InRoom(o) /\ ClientRoom(o) # ClientRoom(a)
      /\ Copies(o, FrameSrc(k)) = {}

(***************************************************************************)
(* What a registration puts in the mailboxes.                              *)
(***************************************************************************)
\* the Hub loop is in addClientToRoom(c)
Registering(c) == loc[Hub].c = c /\ pc[Hub] # "select" /\ pc[c] # "done"

\* addClientToRoom(c) has returned
RegistrationOver(c) == pc[c] \notin {"off", "reg_send"} /\ ~Registering(c)

JoinSrc(c) == <<"join", c, "">>

JoinListSrc(c) == <<"user_list", "join", c>>

IsReplay(m) == m.src[1] = "replay"

\* the part of the log of c that its own registration wrote or could write
OwnRegistration(c) ==
    LET own(m) == m.src = JoinSrc(c) \/ IsReplay(m) \/ m.src = JoinListSrc(c)
    IN  SelectSeq(recv[c], own)

\* the place of a notification in the order of submission
Submission(id) == CHOOSE k \in 1..Len(appended) : appended[k].id = id

(***************************************************************************)
(* C14: when the registration of a session is over, its mailbox was sent,  *)
(* in this order, its own join event, the history entries that match it in *)
(* history order and the user list; every session that was a member of the *)
(* room throughout was sent the join event and then the user list, which   *)
(* names the new session; and no replayed entry is in any other mailbox.   *)
(* An event that found a full mailbox is missing from it.                  *)
(***************************************************************************)
C14_RegistrationOrder ==
    \A c \in Clients :
      /\ \A m \in Clients : \A i \in 1..Len(recv[m]) :
            (IsReplay(recv[m][i]) /\ recv[m][i].src[3] = c) => m = c
      /\ RegistrationOver(c) =>
          LET o == OwnRegistration(c)
              j == IF JoinSrc(c) \in dropped[c] THEN 0 ELSE 1
              u == IF JoinListSrc(c) \in dropped[c] THEN 0 ELSE 1
              last == Len(o) - u
          IN  /\ Len(o) >= j + u
              /\ j = 1 => o[1] = JoinMsg(c)
              /\ u = 1 => /\ o[Len(o)].src = JoinListSrc(c)
                          /\ \E X \in SUBSET Clients :
                                /\ c \in X
                                /\ o[Len(o)] = UserListMsg(ClientRoom(c), X,
                                                           JoinListSrc(c))
              /\ \A i \in (j + 1)..last :
                    /\ IsReplay(o[i])
                    /\ \E k \in 1..Len(appended) :
                          /\ o[i] = ReplayMsg(c, appended[k])
                          /\ ReplayMatches(appended[k], c)
                    /\ \A l \in (i + 1)..last :
                          Submission(o[i].src[2]) < Submission(o[l].src[2])
              /\ \A i \in 1..Len(history) :
                    (/\ Submission(history[i].id) <= Len(env.past)
                     /\ ReplayMatches(history[i], c))
                    => \E l \in (j + 1)..last : o[l] = ReplayMsg(c, history[i])
              /\ \A m \in Clients \ {c} :
                    (Settled(m) /\ ClientRoom(m) = ClientRoom(c) /\ c \in env.waiting)
                    => /\ Copies(m, JoinSrc(c)) # {} \/ JoinSrc(c) \in dropped[m]
                       /\ \/ Copies(m, JoinListSrc(c)) # {}
                          \/ JoinListSrc(c) \in dropped[m]
                       /\ \A a \in Copies(m, JoinSrc(c)) :
                          \A b \in Copies(m, JoinListSrc(c)) : a < b

\* a session registered in this run holds its join event, two replayed
\* entries and the user list; its room mate holds the join event and the
\* user list, and a session registered in another room holds no replay
C14_Witness ==
    \E c \in env.waiting : \E m, x \in Clients :
      /\ RegistrationOver(c)
      /\ Len(OwnRegistration(c)) = 4
      /\ dropped[c] = {}
      /\ m # c /\ Settled(m) /\ ClientRoom(m) = ClientRoom(c)
      /\ Copies(m, JoinSrc(c)) # {} /\ Copies(m, JoinListSrc(c)) # {}
      /\ x \in env.waiting /\ RegistrationOver(x)
      /\ ClientRoom(x) # ClientRoom(c)
      /\ \A i \in 1..Len(recv[x]) : ~IsReplay(recv[x][i])

(***************************************************************************)
(* C15: removeClientFromRoom is idempotent.  A call for a session that is  *)
(* already out of its room changes no member set and not the directory and *)
(* puts no event in any mailbox: no step of the Hub loop in such a call    *)
(* changes members, rooms or a mailbox log.                                *)
(***************************************************************************)
C15_UnregisterAgainIsNoOp ==
    [][(loc[Hub].again /\ (pc'[Hub] # pc[Hub] \/ loc'[Hub] # loc[Hub]))
         => (members' = members /\ rooms' = rooms /\ recv' = recv)]_vars

(***************************************************************************)
(* What a removal puts in the mailboxes.                                   *)
(***************************************************************************)
\* removeClientFromRoom(c) has returned
RemovalOver(c) == pc[c] = "done" /\ ~(loc[Hub].c = c /\ pc[Hub] # "select")

LeaveSrc(c) == <<"leave", c, "">>

LeaveListSrc(c) == <<"user_list", "leave", c>>

\* the sessions of the room of c that were registered before the run
RoomMates(c) == {x \in Joined(env) \ {c} : ClientRoom(x) = ClientRoom(c)}

(***************************************************************************)
(* C16: when the removal of session c is over, every session that has been *)
(* a member of its room throughout was sent the leave event of c and then  *)
(* a user list that names exactly the members that remained; c was sent    *)
(* neither; the room is in the directory while it has a member, and it is  *)
(* gone once the Hub loop is through with the removal of its last member.  *)
(* An event that found a full mailbox is missing from it.                  *)
(***************************************************************************)
C16_LeaveThenUserList ==
    \A c \in Clients :
      LET r == ClientRoom(c)
      IN  /\ Copies(c, LeaveSrc(c)) = {}
          /\ Copies(c, LeaveListSrc(c)) = {}
          /\ members[r] # {} => r \in rooms
          /\ RemovalOver(c) =>
              /\ (pc[Hub] = "select" /\ members[r] = {}) => r \notin rooms
              /\ \A m \in RoomMates(c) :
                    Settled(m) =>
                      /\ Copies(m, LeaveSrc(c)) # {} \/ LeaveSrc(c) \in dropped[m]
                      /\ \/ Copies(m, LeaveListSrc(c)) # {}
                         \/ LeaveListSrc(c) \in dropped[m]
                      /\ \A i \in Copies(m, LeaveSrc(c)) :
                            /\ recv[m][i] = LeaveMsg(c)
                            /\ \A j \in Copies(m, LeaveListSrc(c)) : i < j
                      /\ \A j \in Copies(m, LeaveListSrc(c)) :
                            \E X \in SUBSET RoomMates(c) :
                              /\ m \in X
                              /\ recv[m][j] = UserListMsg(r, X, LeaveListSrc(c))
                              /\ (env.waiting = {} /\ dropped[m] = {}) =>
                                    X = {x \in RoomMates(c) :
                                           \A a \in Copies(m, LeaveSrc(x)) : a > j}

\* three members left their room one after the other: the last of them
\* holds the leave event and a user list of two names from the first
\* removal and those of the second with its own name only, none of its
\* own, and the room is gone
C16_Witness ==
    \E c, d, e \in Clients :
      /\ RemovalOver(c) /\ RemovalOver(d) /\ RemovalOver(e)
      /\ ClientRoom(c) \notin rooms
      /\ \E i, j, k, l \in 1..Len(recv[e]) :
            /\ i < j /\ j < k /\ k < l
            /\ recv[e][i] = LeaveMsg(c)
            /\ recv[e][j] = UserListMsg(ClientRoom(c), {d, e}, LeaveListSrc(c))
            /\ recv[e][k] = LeaveMsg(d)
            /\ recv[e][l] = UserListMsg(ClientRoom(c), {e}, LeaveListSrc(d))
      /\ Copies(e, LeaveSrc(e)) = {}

(***************************************************************************)
(* C17: what a command of session c produces (a reply, or the user list of *)
(* /users) is put in the mailbox of c only, and once.                      *)
(***************************************************************************)
C17_CommandRepliesToSelfOnly ==
    \A m \in Clients : \A i \in 1..Len(recv[m]) :
      LET src == recv[m][i].src
      IN  (src[1] \in {"reply", "user_list"} /\ src[2] \in Clients) =>
            /\ src[2] = m
            /\ Copies(m, src) = {i}

(***************************************************************************)
(* C18: a member whose connection has ended (readPump is at its send to    *)
(* unregister) is in the end taken out of the member set of its room,      *)
(* whatever the other sessions and the admin requests do.                  *)
(***************************************************************************)
C18_DisconnectLeadsToRemoval ==
    \A c \in Clients :
      (pc[c] = "unreg_send" /\ InRoom(c)) ~> ~InRoom(c)

(***************************************************************************)
(* C19: a registered session whose peer has gone silent (no frame, no      *)
(* transport error, no answer to a keepalive probe) is treated as dead and *)
(* unregistered.  Every run takes finitely many inputs from the peers, so  *)
(* every peer is silent from some state on: from some state on no session  *)
(* is a member of its room.                                                *)
(***************************************************************************)
C19_SilentPeerIsUnregistered ==
    \A c \in Clients : <>[](~InRoom(c))

(***************************************************************************)
(* C20: in every state, the ones between two steps of a registration or a  *)
(* removal included, every room of the directory has at least one member.  *)
(***************************************************************************)
C20_NoEmptyRoomInDirectory ==
    \A r \in rooms : members[r] # {}

(***************************************************************************)
(* Blocking operations and locks.                                          *)
(***************************************************************************)
\* p is at a send that cannot be made now: to a full mailbox, to the full
\* broadcast queue, or to register or unregister while the Hub loop is not
\* at its select
BlockedOnSend(p) ==
    \/ /\ p = Hub
       /\ pc[Hub] = "add_replay"
       /\ loc[Hub].hist # <<>>
       /\ ReplayMatches(Head(loc[Hub].hist), loc[Hub].c)
       /\ Full(loc[Hub].c)
    \/ /\ p \in Clients
       /\ \/ pc[p] = "reply" /\ Full(p)
          \/ pc[p] = "bcast_send" /\ BroadcastFull
          \/ pc[p] \in {"reg_send", "unreg_send"} /\ pc[Hub] # "select"
    \/ /\ p \in Routers
       /\ pc[p] = "route_user_client"
       /\ \E c \in loc[p].todo :
             /\ ClientUser(c) = TrimPrefix(loc[p].n.target, UserPrefix)
             /\ Full(c)

\* p holds Hub.mu or a Room.mu (the Hub loop's write sections are single
\* steps; every other holder is a reader)
HoldsLock(p) == p \in hmuR \/ \E r \in RoomNames : p \in rmuR[r]

(***************************************************************************)
(* C21: no process is blocked on a send to a mailbox or to a queue of the  *)
(* Hub loop while it holds the directory lock or a room lock.              *)
(***************************************************************************)
C21_NoBlockingSendUnderLock ==
    \A p \in Procs : BlockedOnSend(p) => ~HoldsLock(p)

(***************************************************************************)
(* C22: a target is classified by its prefix, and a target with neither    *)
(* the room: nor the user: prefix, whether it is the word all or any other *)
(* string, selects every room: once such a notification is routed, every   *)
(* session that has been a member of a room throughout was sent its live   *)
(* event (or it found that mailbox full).                                  *)
(***************************************************************************)
C22_OtherTargetsReachEveryone ==
    \A k \in 1..Len(appended) :
      LET n == appended[k]
      IN  (/\ Routed(k)
           /\ ~HasPrefix(n.target, RoomPrefix)
           /\ ~HasPrefix(n.target, UserPrefix))
          => \A c \in Clients :
               Settled(c) =>
                 \/ LiveEvent(c, n)
                 \/ <<"notif", n.id, "">> \in dropped[c]

(***************************************************************************)
(* The replays in the log of a session.                                    *)
(***************************************************************************)
\* the positions in the log of c of the replays of the k-th notification
ReplaysOf(c, k) == Copies(c, <<"replay", appended[k].id, c>>)

\* the targets with which a notification is for session c at its join
JoinTargets(c) ==
    {AllTarget, RoomPrefix \o ClientRoom(c), UserPrefix \o ClientUser(c)}

(***************************************************************************)
(* C23, as the claim has it: the replay at a join sends the session only   *)
(* history entries whose target is all or room: followed by its own room.  *)
(***************************************************************************)
C23_ReplayOnlyAllAndOwnRoom ==
    \A c \in Clients : \A k \in 1..Len(appended) :
      ReplaysOf(c, k) # {} =>
        appended[k].target \in {AllTarget, RoomPrefix \o ClientRoom(c)}

(***************************************************************************)
(* C23, amended: the replay at a join sends the session the history        *)
(* entries whose target is all, room: followed by its own room or user:    *)
(* followed by its own username, each once and in submission order, and no *)
(* entry with another target.  Of the entries submitted after the run      *)
(* began, the ones in the history when it was copied.                      *)
(***************************************************************************)
C23_ReplayOfMatchingTargets ==
    \A c \in Clients :
      /\ \A k \in 1..Len(appended) :
            /\ Cardinality(ReplaysOf(c, k)) <= 1
            /\ ReplaysOf(c, k) # {} => appended[k].target \in JoinTargets(c)
            /\ \A i \in ReplaysOf(c, k) :
                  /\ recv[c][i] = ReplayMsg(c, appended[k])
                  /\ \A l \in (k + 1)..Len(appended) :
                        \A j \in ReplaysOf(c, l) : i < j
      /\ RegistrationOver(c) =>
            \A i \in 1..Len(history) :
              (/\ Submission(history[i].id) <= Len(env.past)
               /\ history[i].target \in JoinTargets(c))
              => ReplaysOf(c, Submission(history[i].id)) # {}

\* a session that joined in this run was replayed an entry for its room and
\* then one for its username, and a session that joined another room under
\* another name was replayed neither
C23_Witness ==
    \E c, x \in env.waiting : \E k, l \in 1..Len(appended) :
      /\ RegistrationOver(c) /\ RegistrationOver(x)
      /\ k < l
      /\ appended[k].target = RoomPrefix \o ClientRoom(c)
      /\ appended[l].target = UserPrefix \o ClientUser(c)
      /\ ReplaysOf(c, k) # {} /\ ReplaysOf(c, l) # {}
      /\ ReplaysOf(x, k) = {} /\ ReplaysOf(x, l) = {}

(***************************************************************************)
(* Messages made from a frame that a session read.                         *)
(***************************************************************************)
IsFrame(m) == Len(m.src) > 0 /\ m.src[1] = "frame"

\* the message carries the username and the room of the session that read it
Stamped(m) ==
    /\ m.username = ClientUser(m.src[2])
    /\ m.room = ClientRoom(m.src[2])

(***************************************************************************)
(* C24: every frame that is not a command carries, from the moment it is   *)
(* handed to the broadcast queue, the username and the room of the session *)
(* that read it, whatever username and room the frame itself named, and it *)
(* is put in no mailbox but those of that session's room.                  *)
(***************************************************************************)
C24_FramesCarryOwnIdentity ==
    /\ \A i \in 1..Len(broadcast) : Stamped(broadcast[i])
    /\ \A p \in Procs : IsFrame(loc[p].msg) => Stamped(loc[p].msg)
    /\ \A m \in Clients : \A i \in 1..Len(recv[m]) :
          IsFrame(recv[m][i]) =>
            /\ Stamped(recv[m][i])
            /\ ClientRoom(m) = ClientRoom(recv[m][i].src[2])

\* a session read a frame that named another username and another room,
\* in which a session sits: its room mate holds the frame, that session
\* does not
C24_Witness ==
    \E k \in 1..count.chats : \E m, o \in Clients :
      LET f == count.frames[k]
      IN  /\ f.username # ClientUser(f.c)
          /\ f.room # ClientRoom(f.c)
          /\ m # f.c /\ ClientRoom(m) = ClientRoom(f.c)
          /\ Copies(m, FrameSrc(k)) # {}
          /\ InRoom(o) /\ ClientRoom(o) = f.room
          /\ ~InFlight(FrameSrc(k))
          /\ Copies(o, FrameSrc(k)) = {}

(***************************************************************************)
(* What holds up the Hub loop.                                             *)
(***************************************************************************)
\* p is at a send to the mailbox of s, which is full
BlockedOnMailbox(p, s) ==
    /\ Full(s)
    /\ \/ /\ p = Hub
          /\ pc[Hub] = "add_replay"
          /\ loc[Hub].c = s
          /\ loc[Hub].hist # <<>>
          /\ ReplayMatches(Head(loc[Hub].hist), s)
       \/ p = s /\ pc[s] = "reply"
       \/ /\ p \in Routers
          /\ pc[p] = "route_user_client"
          /\ s \in loc[p].todo
          /\ ClientUser(s) = TrimPrefix(loc[p].n.target, UserPrefix)

\* the next step of the Hub loop is a Lock of a mutex that p holds
HubWaitsForLock(p) ==
    \/ /\ pc[Hub] \in {"add_getroom", "add_getroom_wait"}
       /\ p \in hmuR
    \/ /\ pc[Hub] \in {"rem_dirdel", "rem_dirdel_wait"}
       /\ loc[Hub].remaining = 0
       /\ p \in hmuR
    \/ /\ pc[Hub] \in {"add_insert", "add_insert_wait", "rem_delete",
                        "rem_delete_wait"}
       /\ p \in rmuR[ClientRoom(loc[Hub].c)]

(***************************************************************************)
(* C25: a failure of one session does not stop or block the Hub loop: when *)
(* the writePump of a session has ended on a write error, the Hub loop is  *)
(* not blocked at a send to that session's mailbox, and it does not wait   *)
(* for a lock held by a process that is blocked there.                     *)
(***************************************************************************)
C25_FailureDoesNotBlockHubLoop ==
    \A s \in Clients :
      wp[s] = "exit" =>
        /\ ~BlockedOnMailbox(Hub, s)
        /\ \A p \in Procs : ~(BlockedOnMailbox(p, s) /\ HubWaitsForLock(p))

(***************************************************************************)
(* C26: after readPump has ended and the session has been taken out of its *)
(* room, its writePump ends as well.                                       *)
(***************************************************************************)
C26_WritePumpEnds ==
    \A c \in Clients : RemovalOver(c) ~> (wp[c] # "run")

(***************************************************************************)
(* C27: no session is sent a notification twice: not as a live event and   *)
(* again as a replay at its registration.                                  *)
(***************************************************************************)
C27_NotificationAtMostOnce ==
    \A c \in Clients : \A k \in 1..Len(appended) :
      Cardinality(NotifEvents(c, appended[k].id)) <= 1

(***************************************************************************)
(* C28: routing a notification to all while the Hub loop runs is free of   *)
(* deadlock: the routing always comes to its end, and a wait of the Hub    *)
(* loop for the directory lock always ends.                                *)
(***************************************************************************)
C28_RouteAllCompletes ==
    /\ \A p \in Routers :
          (pc[p] # "idle" /\ loc[p].n.target = AllTarget) ~> (pc[p] = "idle")
    /\ HubWantsH ~> ~HubWantsH

(***************************************************************************)
(* C29: membership events are authentic: no event of type join, leave,     *)
(* system or user_list in a mailbox was made from a frame that a session   *)
(* read from its peer.                                                     *)
(***************************************************************************)
C29_NoMembershipEventFromFrame ==
    \A m \in Clients : \A i \in 1..Len(recv[m]) :
      IsFrame(recv[m][i]) =>
        recv[m][i].type \notin {"join", "leave", MsgSystem, MsgUserList}

(***************************************************************************)
(* The single-room broadcast hub of unnamed/part_007.  It is a program of  *)
(* its own: one goroutine runs Hub.run, handleWS hands every new client to *)
(* it and starts the client's writePump and readPump.  Hub.clients is read *)
(* and written by Hub.run only, and Hub.mu is taken by Hub.run only, so a  *)
(* case of its select, or one turn of its range loop, is one step.  The    *)
(* channels register, unregister and broadcast are unbuffered: a send and  *)
(* the receive of Hub.run are one step, enabled when both sides are there. *)
(* The variables of the chat hub of lab_7 stay as they start.              *)
(***************************************************************************)
SendCap == 2        \* make(chan []byte, 256), cut down
MaxMessages == 3    \* the messages the peers send in a run
Talkers == {"c1"}         \* the clients whose peers send messages
Texts == {<<"m">>}        \* what a peer sends

\* []byte(fmt.Sprintf("%s: %s", c.ID, msg))
Format(c, msg) == <<c, ":", " ">> \o msg

chatHub == <<env, rooms, roomId, members, history, broadcast, send, conn,
             pc, wp, loc, hmuR, rmuR, count, recv, dropped, appended>>

\* a panic ends the program
Running == run.at # "off" /\ panics = {}

\* the channel client.Send has been closed
Closed(c) == closes[c] # <<>>

\* close(client.Send) called from the case `by` of Hub.run
CloseSend(c, by) ==
    /\ closes' = [closes EXCEPT ![c] = Append(@, by)]
    /\ panics' = IF Closed(c) THEN panics \cup {"close of closed channel"}
                 ELSE panics

\* newHub() and go hub.run(): no client yet, Hub.run at its select
InitBroadcastHub ==
    /\ InitOf(Quiet)
    /\ clients = {}
    /\ Send = [c \in Clients |-> <<>>]
    /\ Conn = [c \in Clients |-> "open"]
    /\ run = [at |-> "select", client |-> "", message |-> <<>>, todo |-> {}]
    /\ readPump = [c \in Clients |-> "off"]
    /\ writePump = [c \in Clients |-> "off"]
    /\ messages = 0
    /\ inserted = {}
    /\ closes = [c \in Clients |-> <<>>]
    /\ panics = {}

\* handleWS: the upgrade succeeded, the client is made, next is
\* hub.register <- client
HandleWSUpgrade(c) ==
    /\ Running
    /\ readPump[c] = "off"
    /\ readPump' = [readPump EXCEPT ![c] = "register"]
    /\ UNCHANGED <<chatHub, clients, Send, Conn, run, writePump, messages,
                   inserted, closes, panics>>

\* case client := <-h.register, with the rest of handleWS:
\* go client.writePump(); go client.readPump(hub)
RunRegister(c) ==
    /\ Running
    /\ run.at = "select"
    /\ readPump[c] = "register"
    /\ clients' = clients \cup {c}
    /\ inserted' = inserted \cup {c}
    /\ readPump' = [readPump EXCEPT ![c] = "read"]
    /\ writePump' = [writePump EXCEPT ![c] = "run"]
    /\ UNCHANGED <<chatHub, Send, Conn, run, messages, closes, panics>>

\* readPump: c.Conn.ReadMessage() returned a message, next is
\* hub.broadcast <- ...
ReadMessage(c) ==
    /\ Running
    /\ c \in Talkers
    /\ readPump[c] = "read"
    /\ Conn[c] = "open"
    /\ messages < MaxMessages
    /\ messages' = messages + 1
    /\ readPump' = [readPump EXCEPT ![c] = "broadcast"]
    /\ UNCHANGED <<chatHub, clients, Send, Conn, run, writePump, inserted,
                   closes, panics>>

\* readPump: c.Conn.ReadMessage() returned an error (the peer left, or the
\* read deadline passed); break, next is the deferred hub.unregister <- c
ReadMessageError(c) ==
    /\ Running
    /\ readPump[c] = "read"
    /\ readPump' = [readPump EXCEPT ![c] = "unregister"]
    /\ UNCHANGED <<chatHub, clients, Send, Conn, run, writePump, messages,
                   inserted, closes, panics>>

\* case message := <-h.broadcast: h.mu.RLock(), the range loop starts
RunBroadcast(c) ==
    /\ Running
    /\ run.at = "select"
    /\ readPump[c] = "broadcast"
    /\ \E msg \in Texts :
         run' = [at |-> "range", client |-> "", message |-> Format(c, msg),
                 todo |-> clients]
    /\ readPump' = [readPump EXCEPT ![c] = "read"]
    /\ UNCHANGED <<chatHub, clients, Send, Conn, writePump, messages,
                   inserted, closes, panics>>

\* one turn of the range loop, case client.Send <- message; a send on a
\* closed channel panics
RangeSend(c) ==
    /\ Running
    /\ run.at = "range"
    /\ c \in run.todo
    /\ Closed(c) \/ Len(Send[c]) < SendCap
    /\ IF Closed(c)
       THEN /\ panics' = panics \cup {"send on closed channel"}
            /\ UNCHANGED Send
       ELSE /\ Send' = [Send EXCEPT ![c] = Append(@, run.message)]
            /\ UNCHANGED panics
    /\ run' = [run EXCEPT !.todo = @ \ {c}]
    /\ UNCHANGED <<chatHub, clients, Conn, readPump, writePump, messages,
                   inserted, closes>>

\* one turn of the range loop with the mailbox full and no reader ready:
\* default: close(client.Send); delete(h.clients, client)
RangeOverflowKeepsClient(c) ==
    /\ Running
    /\ run.at = "range"
    /\ c \in run.todo
    /\ ~Closed(c)
    /\ Len(Send[c]) >= SendCap
    /\ CloseSend(c, "broadcast")
    /\ run' = [run EXCEPT !.todo = @ \ {c}]
    /\ UNCHANGED <<chatHub, clients, Send, Conn, readPump, writePump,
                   messages, inserted>>

RangeOverflow(c) ==
    /\ Running
    /\ run.at = "range"
    /\ c \in run.todo
    /\ ~Closed(c)
    /\ Len(Send[c]) >= SendCap
    /\ CloseSend(c, "broadcast")
    /\ clients' = clients \ {c}
    /\ run' = [run EXCEPT !.todo = @ \ {c}]
    /\ UNCHANGED <<chatHub, Send, Conn, readPump, writePump, messages,
                   inserted>>

\* the range loop is over: h.mu.RUnlock(), back to the select
RangeEnd ==
    /\ Running
    /\ run.at = "range"
    /\ run.todo = {}
    /\ run' = [run EXCEPT !.at = "select", !.message = <<>>]
    /\ UNCHANGED <<chatHub, clients, Send, Conn, readPump, writePump,
                   messages, inserted, closes, panics>>

\* case client := <-h.unregister:
\* if _, ok := h.clients[client]; ok { delete(...); close(client.Send) }
RunUnregister(c) ==
    /\ Running
    /\ run.at = "select"
    /\ readPump[c] = "unregister"
    /\ IF c \in clients
       THEN /\ clients' = clients \ {c}
            /\ CloseSend(c, "unregister")
       ELSE UNCHANGED <<clients, closes, panics>>
    /\ readPump' = [readPump EXCEPT ![c] = "close"]
    /\ UNCHANGED <<chatHub, Send, Conn, run, writePump, messages, inserted>>

\* the deferred function of readPump after its send: c.Conn.Close()
ConnClose(c) ==
    /\ Running
    /\ readPump[c] = "close"
    /\ Conn' = [Conn EXCEPT ![c] = "closed"]
    /\ readPump' = [readPump EXCEPT ![c] = "done"]
    /\ UNCHANGED <<chatHub, clients, Send, run, writePump, messages,
                   inserted, closes, panics>>

\* writePump, case message, ok := <-c.Send with ok: the message is written,
\* and writePump returns when the connection gives an error
WriteMessage(c) ==
    /\ Running
    /\ writePump[c] = "run"
    /\ Send[c] # <<>>
    /\ Send' = [Send EXCEPT ![c] = Tail(@)]
    /\ writePump' = [writePump EXCEPT ![c] =
                       IF Conn[c] = "closed" THEN "exit" ELSE "run"]
    /\ UNCHANGED <<chatHub, clients, Conn, run, readPump, messages,
                   inserted, closes, panics>>

\* writePump, case message, ok := <-c.Send with !ok: the channel is closed
\* and empty; the close message is written and writePump returns
WriteClose(c) ==
    /\ Running
    /\ writePump[c] = "run"
    /\ Send[c] = <<>>
    /\ Closed(c)
    /\ writePump' = [writePump EXCEPT ![c] = "exit"]
    /\ UNCHANGED <<chatHub, clients, Send, Conn, run, readPump, messages,
                   inserted, closes, panics>>

\* writePump, case <-ticker.C: the ping fails on a closed connection and
\* writePump returns (a ping that succeeds changes nothing)
WritePing(c) ==
    /\ Running
    /\ writePump[c] = "run"
    /\ Conn[c] = "closed"
    /\ writePump' = [writePump EXCEPT ![c] = "exit"]
    /\ UNCHANGED <<chatHub, clients, Send, Conn, run, readPump, messages,
                   inserted, closes, panics>>

NextBroadcastHub ==
    \/ \E c \in Clients : HandleWSUpgrade(c)
    \/ \E c \in Clients : RunRegister(c)
    \/ \E c \in Clients : ReadMessage(c)
    \/ \E c \in Clients : ReadMessageError(c)
    \/ \E c \in Clients : RunBroadcast(c)
    \/ \E c \in Clients : RangeSend(c)
    \/ \E c \in Clients : RangeOverflow(c)
    \/ RangeEnd
    \/ \E c \in Clients : RunUnregister(c)
    \/ \E c \in Clients : ConnClose(c)
    \/ \E c \in Clients : WriteMessage(c)
    \/ \E c \in Clients : WriteClose(c)
    \/ \E c \in Clients : WritePing(c)

SpecBroadcastHub == InitBroadcastHub /\ [][NextBroadcastHub]_vars

\* C30: in the broadcast hub of unnamed/part_007, whatever the order of
\* overflowing broadcasts and of a client's own unregister request, the
\* Send mailbox of a client is closed exactly when the client has been
\* taken out of Hub.clients, it is closed at most once, and Hub.run never
\* sends on a closed mailbox: no panic is raised.
C30_SendClosedOnceOnRemoval ==
    /\ \A c \in Clients : Len(closes[c]) <= 1
    /\ \A c \in Clients : Closed(c) <=> (c \in inserted /\ c \notin clients)
    /\ panics = {}

\* a client whose mailbox a broadcast closed at overflow and whose own
\* unregister request Hub.run has taken since, next to a client that its
\* unregister request closed and to one that is still in Hub.clients
C30_Witness ==
    \E c, d, e \in Clients :
      /\ closes[c] = <<"broadcast">>
      /\ readPump[c] = "done"
      /\ closes[d] = <<"unregister">>
      /\ e \in clients
      /\ run.at = "select"
====
